---- MODULE Spec2Model ----
(***************************************************************************)
(* HubSpot -> BigQuery contact sync (mercermdo/mdo-elt).                   *)
(*                                                                         *)
(* The model covers three of the repository's sync variants:               *)
(*   "index"     src/index.js:303-487  (stream -> stage -> MERGE)          *)
(*   "part_001"  src/unnamed/part_001  (persistent stage cleared by MERGE) *)
(*   "part_005"  src/unnamed/part_005  (fresh stage, watermark read late)  *)
(* One sync process runs at a time; every awaited call is one step and may *)
(* throw.  The CRM is live: contacts are modified while a run is going on. *)
(* Time is counted in days (Date.now() is in ms; 30 days = ThirtyDays).    *)
(* Names (property and column names) are sequences of one-letter strings.  *)
(* Tables are sequences of rows in physical order; a row is a function     *)
(* from column names to values.                                            *)
(***************************************************************************)
EXTENDS Integers, Sequences, FiniteSets, TLC

(* ---------------- bounds ---------------- *)
MaxId == 2
MaxClock == 3
PageLimit == 1
BatchSize == 1
MaxCalls == 2

(* ---------------- program constants ---------------- *)
ThirtyDays == 30

Ids == 1..MaxId
NoCursor == 0
NULL == "<NULL>"
Vals == {"", "a"}
Variants == {"index", "part_001", "part_005"}

ID == <<"i", "d">>

(* ---------------- helpers: sanitise / hub2bq ---------------- *)
UpperCase == <<"A","B","C","D","E","F","G","H","I","J","K","L","M",
               "N","O","P","Q","R","S","T","U","V","W","X","Y","Z">>
LowerCase == <<"a","b","c","d","e","f","g","h","i","j","k","l","m",
               "n","o","p","q","r","s","t","u","v","w","x","y","z">>
Letters == {LowerCase[k] : k \in 1..26}
Digits == {"0","1","2","3","4","5","6","7","8","9"}

toLowerCase(ch) ==
  IF \E k \in 1..26 : UpperCase[k] = ch
  THEN LowerCase[CHOOSE k \in 1..26 : UpperCase[k] = ch]
  ELSE ch

\* n.toLowerCase().replace(/[^a-z0-9_]/g,'_')
replaceUnsafe(n) ==
  [k \in 1..Len(n) |->
     LET ch == toLowerCase(n[k])
     IN IF ch \in Letters \cup Digits \cup {"_"} THEN ch ELSE "_"]

sanitise_underscore(n) ==
  LET m == replaceUnsafe(n)
  IN IF Len(m) > 0 /\ m[1] \notin Letters THEN <<"_">> \o m ELSE m

\* /^[^a-z]/i.test(n) ? 'p_'+n : n
sanitise(n) ==
  LET m == replaceUnsafe(n)
  IN IF Len(m) > 0 /\ m[1] \notin Letters THEN <<"p", "_">> \o m ELSE m

hub2bq(t) ==
  CASE t = "string"   -> "STRING"
    [] t = "number"   -> "FLOAT"
    [] t = "datetime" -> "TIMESTAMP"
    [] t = "date"     -> "DATE"
    [] t = "bool"     -> "BOOLEAN"
    [] OTHER          -> "STRING"

\* the CRM's property catalogue: one string property named "Em"
Catalogue == << [name |-> <<"E", "m">>, type |-> "string"] >>

\* main: schema = [{id,STRING,REQUIRED}, ...props.map(...)]
SchemaOf(ps) ==
  << [name |-> ID, type |-> "STRING", mode |-> "REQUIRED"] >> \o
  [k \in 1..Len(ps) |->
     [name |-> sanitise(ps[k].name), type |-> hub2bq(ps[k].type), mode |-> "NULLABLE"]]

Names(fields) == {fields[k].name : k \in 1..Len(fields)}

(* ---------------- warehouse tables ---------------- *)
NoTable == [exists |-> FALSE, fields |-> <<>>, rows |-> <<>>]

HasDupNames(fields) ==
  \E j, k \in 1..Len(fields) : j # k /\ fields[j].name = fields[k].name

\* does the call throw?  BigQuery rejects a schema with a repeated field name
ensureTableThrows(tb, schema) ==
  IF ~tb.exists
  THEN HasDupNames(schema)
  ELSE HasDupNames(tb.fields \o SelectSeq(schema, LAMBDA f : f.name \notin Names(tb.fields)))

ensureTable_replaces(tb, schema) ==
  [exists |-> TRUE, fields |-> schema, rows |-> tb.rows]

\* ensureTable: create with the schema, or append the columns it lacks
ensureTable(tb, schema) ==
  IF ~tb.exists
  THEN [exists |-> TRUE, fields |-> schema, rows |-> <<>>]
  ELSE LET have == Names(tb.fields)
           add  == SelectSeq(schema, LAMBDA f : f.name \notin have)
       IN IF Len(add) > 0 THEN [tb EXCEPT !.fields = @ \o add] ELSE tb

\* a streamed row as stored: unknown keys ignored, absent columns NULL
StoredRow(fields, r) ==
  [c \in Names(fields) |-> IF c \in DOMAIN r THEN r[c] ELSE NULL]

IdsOf(rows) == {rows[k][ID] : k \in 1..Len(rows)}
RowsWithId(rows, id) == {k \in 1..Len(rows) : rows[k][ID] = id}

tableInsert_twice(tb, payload, dedup) ==
  [tb EXCEPT !.rows = @ \o [k \in 1..Len(payload) |-> StoredRow(tb.fields, payload[k])]
                          \o [k \in 1..Len(payload) |-> StoredRow(tb.fields, payload[k])]]

\* table.insert(payload, {ignoreUnknownValues, skipInvalidRows}), each row
\* sent with insertId = r.id.  The warehouse de-duplicates on insertId on a
\* best-effort basis only: dedup tells whether it did for this call, in
\* which case a row whose id the table already holds is discarded.
tableInsert(tb, payload, dedup) ==
  LET kept == IF dedup
              THEN SelectSeq(payload, LAMBDA r : r[ID] \notin IdsOf(tb.rows))
              ELSE payload
  IN [tb EXCEPT !.rows = @ \o [k \in 1..Len(kept) |-> StoredRow(tb.fields, kept[k])]]

\* the MERGE statement is rejected: a table or a referenced column is
\* missing, or more than one source row matches a target row
mergeThrows(T, S, schema) ==
  \/ ~T.exists
  \/ ~S.exists
  \/ ~(Names(schema) \subseteq Names(T.fields))
  \/ ~(Names(schema) \subseteq Names(S.fields))
  \/ \E t \in 1..Len(T.rows) : Cardinality(RowsWithId(S.rows, T.rows[t][ID])) > 1

mergeRows_overwrites(T, S, schema) ==
  LET src(t) == S.rows[CHOOSE k \in RowsWithId(S.rows, t[ID]) : TRUE]
      updated ==
        [k \in 1..Len(T.rows) |->
           IF RowsWithId(S.rows, T.rows[k][ID]) = {}
           THEN T.rows[k]
           ELSE [c \in DOMAIN T.rows[k] |->
                   IF c \in Names(schema) THEN src(T.rows[k])[c] ELSE NULL]]
      fresh == SelectSeq(S.rows, LAMBDA s : s[ID] \notin IdsOf(T.rows))
  IN updated \o [k \in 1..Len(fresh) |->
                   [c \in Names(T.fields) |->
                      IF c \in Names(schema) THEN fresh[k][c] ELSE NULL]]

mergeRows_appends(T, S, schema) ==
  T.rows \o [k \in 1..Len(S.rows) |->
               [c \in Names(T.fields) |->
                  IF c \in Names(schema) THEN S.rows[k][c] ELSE NULL]]

mergeRows_keepsNonNull(T, S, schema) ==
  LET src(t) == S.rows[CHOOSE k \in RowsWithId(S.rows, t[ID]) : TRUE]
      updated ==
        [k \in 1..Len(T.rows) |->
           IF RowsWithId(S.rows, T.rows[k][ID]) = {}
           THEN T.rows[k]
           ELSE [c \in DOMAIN T.rows[k] |->
                   IF c \in Names(schema) \ {ID} /\ src(T.rows[k])[c] # NULL
                   THEN src(T.rows[k])[c]
                   ELSE T.rows[k][c]]]
      fresh == SelectSeq(S.rows, LAMBDA s : s[ID] \notin IdsOf(T.rows))
  IN updated \o [k \in 1..Len(fresh) |->
                   [c \in Names(T.fields) |->
                      IF c \in Names(schema) THEN fresh[k][c] ELSE NULL]]

\* MERGE T USING S ON T.id = S.id
\*   WHEN MATCHED THEN UPDATE SET <every non-id schema column>
\*   WHEN NOT MATCHED THEN INSERT (cols) VALUES (cols)
mergeRows(T, S, schema) ==
  LET src(t) == S.rows[CHOOSE k \in RowsWithId(S.rows, t[ID]) : TRUE]
      updated ==
        [k \in 1..Len(T.rows) |->
           IF RowsWithId(S.rows, T.rows[k][ID]) = {}
           THEN T.rows[k]
           ELSE [c \in DOMAIN T.rows[k] |->
                   IF c \in Names(schema) \ {ID}
                   THEN src(T.rows[k])[c]
                   ELSE T.rows[k][c]]]
      fresh == SelectSeq(S.rows, LAMBDA s : s[ID] \notin IdsOf(T.rows))
  IN updated \o [k \in 1..Len(fresh) |->
                   [c \in Names(T.fields) |->
                      IF c \in Names(schema) THEN fresh[k][c] ELSE NULL]]

(* ---------------- state ---------------- *)
VARIABLES
  variant,       \* which script is deployed
  clock,         \* wall clock (Date.now())
  modified,      \* CRM: hs_lastmodifieddate per contact id, 0 = no such contact
  value,         \* CRM: the contact's value of the catalogue property
  sync_tracker,  \* warehouse: rows of sync_tracker for entity 'contacts'
  master,        \* warehouse: table Contacts
  stage,         \* warehouse: table Contacts_stage
  pc,            \* position of the running script
  failedAt,      \* the step whose call threw (catch -> process.exit(1))
  props,         \* main: props
  since,         \* fetchContacts: since
  now,           \* fetchContacts: now
  after,         \* fetchContacts: after
  out,           \* fetchContacts: out (id -> property value)
  rows,          \* main: rows
  i,             \* streamToStage / insertStage: i
  ensured,       \* part_001 ensureTables: tables whose ensure() has finished
  firstReq,      \* clock at the run's first contact-list request, 0 = none yet
  master0,       \* table Contacts when the run started
  stage0,        \* table Contacts_stage when the run started
  tracker0,      \* sync_tracker when the run started
  mode,          \* which caller drives the model: "sync" (whole runs) or one
                 \* of the functions on its own ("loader", "ensure", ...)
  loads,         \* loader harness: completed loads
  master1,       \* loader harness: table Contacts after the first load
  tb,            \* ensure harness: the table ensureTable is called on
  seen,          \* ensure harness: column names ever present or passed
  calls,         \* ensure harness: number of ensureTable calls made
  last,          \* ensure harness: the last ensureTable call and how it ended
  invalid,       \* warehouse: ids of the rows it rejects as invalid
  reported,      \* the count printed in the run's closing console.log
  listing,       \* cleanup: the ids the contact-list endpoint serves
  allIds,        \* cleanup: allIds (part_007) / deleted (cleanup.js)
  issued,        \* cleanup: a DELETE statement was sent
  pending,       \* chunked fetch: the responses the API delivers
  applied,       \* chunked fetch: responses already merged into contacts
  names,         \* sanitise: a name and its successive images
  pages,         \* catalogue endpoint: the pages it serves, in cursor order
  requested,     \* catalogue fetch: the pages requested so far, in order
  stored,        \* sync_tracker: what the stored last_sync_timestamp holds
  window,        \* lastSync: how the call ended and what it returned
  contact,       \* transformer: the fetched contact being turned into a row
  env,           \* process.env: the options that are set
  effects,       \* requests sent to the source API and to the warehouse
  exitCode       \* exit status of the process, "running" until it ends

crm      == <<clock, modified, value>>
whouse   == <<sync_tracker, master, stage>>
locals   == <<props, since, now, after, out, rows, i, ensured, firstReq>>
history  == <<master0, stage0, tracker0>>
probe    == <<last, invalid, reported, listing, allIds, issued, pending, applied,
                 names>>
scenario == <<pages, requested, stored, window, contact, env, effects, exitCode>>
harness  == <<mode, loads, master1, tb, seen, calls, probe, scenario>>
vars     == <<variant, crm, whouse, pc, failedAt, locals, history, harness>>

Schema == SchemaOf(props)

(* ---------------- the CRM ---------------- *)
\* a contact is created or edited; the edit is stamped with a later time
\* than any reading of the clock taken so far
Modify ==
  /\ mode = "sync"
  /\ clock < MaxClock
  /\ \E c \in Ids, v \in Vals :
       /\ modified' = [modified EXCEPT ![c] = clock + 1]
       /\ value' = [value EXCEPT ![c] = v]
  /\ clock' = clock + 1
  /\ UNCHANGED <<variant, whouse, pc, failedAt, locals, history, harness>>

Matching_inclusive(cursor) ==
  {c \in Ids : modified[c] > 0 /\ modified[c] >= since /\ c > cursor}

\* the ids matching the filter hs_lastmodifieddate GT since, past the cursor
Matching(cursor) ==
  {c \in Ids : modified[c] > 0 /\ modified[c] > since /\ c > cursor}

RECURSIVE FirstN(_, _)
FirstN(S, n) ==
  IF n = 0 \/ S = {} THEN {}
  ELSE LET m == CHOOSE x \in S : \A y \in S : x <= y
       IN {m} \cup FirstN(S \ {m}, n - 1)

Max(S) == CHOOSE x \in S : \A y \in S : y <= x

RECURSIVE SortedSeq(_)
SortedSeq(S) ==
  IF S = {} THEN <<>>
  ELSE LET m == CHOOSE x \in S : \A y \in S : x <= y
       IN <<m>> \o SortedSeq(S \ {m})

(* ---------------- main ---------------- *)
\* a new process starts
main ==
  /\ mode = "sync"
  /\ pc \in {"idle", "done", "failed"}
  /\ pc' = "getProps"
  /\ failedAt' = "none"
  /\ props' = <<>>
  /\ since' = 0 /\ now' = 0 /\ after' = NoCursor
  /\ out' = <<>> /\ rows' = <<>> /\ i' = 0 /\ ensured' = {}
  /\ firstReq' = 0
  /\ master0' = master /\ stage0' = stage /\ tracker0' = sync_tracker
  /\ UNCHANGED <<variant, crm, whouse, harness>>

getProps ==
  /\ pc = "getProps"
  /\ props' = Catalogue
  /\ pc' = "lastSync"
  /\ UNCHANGED <<variant, crm, whouse, failedAt, since, now, after, out, rows, i,
                 ensured, firstReq, history, harness>>

\* lastSync, then (index.js, part_001) now = Date.now()
lastSync ==
  /\ pc = "lastSync"
  /\ since' = IF Len(sync_tracker) > 0 THEN sync_tracker[1] ELSE clock - ThirtyDays
  /\ now' = IF variant = "part_005" THEN 0 ELSE clock
  /\ after' = NoCursor
  /\ pc' = "page"
  /\ UNCHANGED <<variant, crm, whouse, failedAt, props, out, rows, i,
                 ensured, firstReq, history, harness>>

fetchPage_savesEachPage ==
  /\ pc = "page"
  /\ LET all  == Matching(after)
         page == FirstN(all, PageLimit)
         next == IF all \ page # {} THEN Max(page) ELSE NoCursor
     IN /\ out' = [c \in (DOMAIN out) \cup page |->
                     IF c \in page THEN value[c] ELSE out[c]]
        /\ after' = next
        /\ pc' = IF next # NoCursor THEN "page" ELSE "saveSync"
  /\ firstReq' = IF firstReq = 0 THEN clock ELSE firstReq
  /\ sync_tracker' = IF Len(sync_tracker) > 0
                     THEN [k \in 1..Len(sync_tracker) |-> clock] ELSE <<clock>>
  /\ UNCHANGED <<variant, crm, master, stage, failedAt, props, since, now, rows, i,
                 ensured, history, harness>>

\* one iteration of the do-while: hubspot.get, merge the page into out
fetchPage ==
  /\ pc = "page"
  /\ LET all  == Matching(after)
         page == FirstN(all, PageLimit)
         next == IF all \ page # {} THEN Max(page) ELSE NoCursor
     IN /\ out' = [c \in (DOMAIN out) \cup page |->
                     IF c \in page THEN value[c] ELSE out[c]]
        /\ after' = next
        /\ pc' = IF next # NoCursor THEN "page" ELSE "saveSync"
  /\ firstReq' = IF firstReq = 0 THEN clock ELSE firstReq
  /\ UNCHANGED <<variant, crm, whouse, failedAt, props, since, now, rows, i,
                 ensured, history, harness>>

\* rows = contacts.map(...):  '' -> null, v ?? null
buildRows(contacts) ==
  LET ids == SortedSeq(DOMAIN contacts)
      col == sanitise(props[1].name)
  IN [k \in 1..Len(ids) |->
        [c \in {ID, col} |->
           IF c = ID THEN ids[k]
           ELSE IF contacts[ids[k]] = "" THEN NULL ELSE contacts[ids[k]]]]

firstLoadStep ==
  CASE variant = "index"    -> "ensureStage"
    [] variant = "part_001" -> "ensureTables"
    [] variant = "part_005" -> "ensureMaster"

afterFetch_always(n) == firstLoadStep

\* main: if (!contacts.length) return;
afterFetch(n) == IF n = 0 THEN "done" ELSE firstLoadStep

\* the timestamp handed to saveSync
savedTimestamp == IF variant = "part_005" THEN clock ELSE now

saveSyncRows_inserts(tracker, ts) == Append(tracker, ts)

\* MERGE sync_tracker ... WHEN MATCHED UPDATE / WHEN NOT MATCHED INSERT
saveSyncRows(tracker, ts) ==
  IF Len(tracker) > 0 THEN [k \in 1..Len(tracker) |-> ts] ELSE <<ts>>

\* the end of fetchContacts (saveSync) and main's continuation
saveSync ==
  /\ pc = "saveSync"
  /\ sync_tracker' = saveSyncRows(sync_tracker, savedTimestamp)
  /\ rows' = buildRows(out)
  /\ pc' = afterFetch(Cardinality(DOMAIN out))
  /\ UNCHANGED <<variant, crm, master, stage, failedAt, props, since, now, after,
                 out, i, ensured, firstReq, history, harness>>

(* ---------------- load: index.js ---------------- *)
\* streamToStage: ensureTable('Contacts_stage', schema)
ensureStage ==
  /\ pc = "ensureStage"
  /\ ~ensureTableThrows(stage, Schema)
  /\ stage' = ensureTable(stage, Schema)
  /\ pc' = "stageDelete"
  /\ UNCHANGED <<variant, crm, sync_tracker, master, failedAt, locals, history, harness>>

\* stage.delete({ignoreNotFound:true}) / part_005: try { delete } catch {}
stageDelete ==
  /\ pc = "stageDelete"
  /\ stage' \in (IF variant = "part_005" THEN {NoTable, stage} ELSE {NoTable})
  /\ pc' = "stageCreate"
  /\ UNCHANGED <<variant, crm, sync_tracker, master, failedAt, locals, history, harness>>

\* for (let i = 0; i < rows.length; ...): no iteration when rows is empty
firstInsertStep == IF Len(rows) = 0 THEN "merge" ELSE "insert"

\* stage.create({schema}) / ds.createTable(stageId, {schema})
stageCreate ==
  /\ pc = "stageCreate"
  /\ ~stage.exists
  /\ ~HasDupNames(Schema)
  /\ stage' = [exists |-> TRUE, fields |-> Schema, rows |-> <<>>]
  /\ i' = 0
  /\ pc' = firstInsertStep
  /\ UNCHANGED <<variant, crm, sync_tracker, master, failedAt, props, since, now,
                 after, out, rows, ensured, firstReq, history, harness>>

\* rows per insert call: 500 at a time; part_005 sends them all at once
batchLen == IF variant = "part_005" THEN Len(rows) ELSE BatchSize

\* the positions of a payload whose rows the warehouse rejects as invalid
Rejected(payload) == {k \in 1..Len(payload) : payload[k][ID] \in invalid}

\* the rows of a payload the warehouse accepts (skipInvalidRows: true)
Accepted(payload) == SelectSeq(payload, LAMBDA r : r[ID] \notin invalid)

\* one iteration of the insert loop
insertBatch ==
  /\ pc = "insert"
  /\ stage.exists
  /\ LET hi    == IF i + batchLen < Len(rows) THEN i + batchLen ELSE Len(rows)
         slice == SubSeq(rows, i + 1, hi)
     IN /\ Rejected(slice) = {}
        /\ \E dedup \in BOOLEAN : stage' = tableInsert(stage, slice, dedup)
        /\ i' = i + batchLen
        /\ pc' = IF i + batchLen < Len(rows) THEN "insert" ELSE "merge"
  /\ UNCHANGED <<variant, crm, sync_tracker, master, failedAt, props, since, now,
                 after, out, rows, ensured, firstReq, history, harness>>

\* mergeStageIntoMaster / mergeIntoMain: the MERGE statement
mergeStageIntoMaster ==
  /\ pc = "merge"
  /\ ~mergeThrows(master, stage, Schema)
  /\ master' = [master EXCEPT !.rows = mergeRows(master, stage, Schema)]
  /\ pc' = IF variant = "part_001" THEN "clearStage"
           ELSE IF mode = "loader" THEN "loaded" ELSE "done"
  /\ UNCHANGED <<variant, crm, sync_tracker, stage, failedAt, locals, history, harness>>

(* ---------------- load: part_001 ---------------- *)
\* ensureTables: Promise.all([ensure(main), ensure(stage)])
ensureTables ==
  /\ pc = "ensureTables"
  /\ \E t \in {"main", "stage"} \ ensured :
       /\ ensured' = ensured \cup {t}
       /\ IF t = "main"
          THEN /\ ~ensureTableThrows(master, Schema)
               /\ master' = ensureTable(master, Schema)
               /\ stage' = stage
          ELSE /\ ~ensureTableThrows(stage, Schema)
               /\ stage' = ensureTable(stage, Schema)
               /\ master' = master
       /\ pc' = IF ensured' = {"main", "stage"} THEN firstInsertStep ELSE "ensureTables"
  /\ i' = 0
  /\ UNCHANGED <<variant, crm, sync_tracker, failedAt, props, since, now, after,
                 out, rows, firstReq, history, harness>>

\* mergeIntoMain, second statement: DELETE FROM stage WHERE TRUE
clearStage ==
  /\ pc = "clearStage"
  /\ stage' = [stage EXCEPT !.rows = <<>>]
  /\ pc' = "done"
  /\ UNCHANGED <<variant, crm, sync_tracker, master, failedAt, locals, history, harness>>

(* ---------------- load: part_005 ---------------- *)
\* main: ensureTable('Contacts', schema)
ensureMaster ==
  /\ pc = "ensureMaster"
  /\ ~ensureTableThrows(master, Schema)
  /\ master' = ensureTable(master, Schema)
  /\ pc' = "stageDelete"
  /\ UNCHANGED <<variant, crm, sync_tracker, stage, failedAt, locals, history, harness>>

(* ---------------- failure ---------------- *)
Running == {"getProps", "lastSync", "page", "saveSync", "ensureStage", "ensureTables",
            "ensureMaster", "stageDelete", "stageCreate", "insert", "merge", "clearStage",
            "insertBatches", "listPage", "delete", "catalogue",
            "lastSyncCall", "sweep"}

\* the awaited call throws: catch (e) { console.error; process.exit(1) }
Fail ==
  /\ pc \in Running
  /\ ~(variant = "part_005" /\ pc = "stageDelete")
  /\ failedAt' = pc
  /\ pc' = "failed"
  /\ UNCHANGED <<variant, crm, whouse, locals, history, harness>>

(* ---------------- the sync specification ---------------- *)
NoCall == [schema |-> <<>>, returned |-> FALSE]

NoWindow == [kind |-> "none", value |-> 0]

InitScenario ==
  /\ pages = <<>> /\ requested = <<>>
  /\ stored = "none" /\ window = NoWindow
  /\ contact = <<>> /\ env = {} /\ effects = <<>>
  /\ exitCode = "running"

InitProbe ==
  /\ last = NoCall /\ invalid = {} /\ reported = 0
  /\ listing = {} /\ allIds = <<>> /\ issued = FALSE
  /\ pending = {} /\ applied = {} /\ names = <<>>

EmptyMaster == [exists |-> TRUE, fields |-> SchemaOf(Catalogue), rows |-> <<>>]

InitLocals ==
  /\ pc = "idle" /\ failedAt = "none"
  /\ props = <<>> /\ since = 0 /\ now = 0 /\ after = NoCursor
  /\ out = <<>> /\ rows = <<>> /\ i = 0 /\ ensured = {} /\ firstReq = 0

Init ==
  /\ mode = "sync"
  /\ InitScenario
  /\ variant \in Variants
  /\ clock = 1
  /\ modified = [c \in Ids |-> 0]
  /\ value = [c \in Ids |-> ""]
  /\ sync_tracker = <<>>
  /\ master = EmptyMaster
  /\ stage = NoTable
  /\ InitLocals
  /\ master0 = master /\ stage0 = stage /\ tracker0 = sync_tracker
  /\ loads = 0 /\ master1 = NoTable
  /\ tb = NoTable /\ seen = {} /\ calls = 0
  /\ InitProbe

Next ==
  \/ Modify
  \/ main
  \/ getProps
  \/ lastSync
  \/ fetchPage
  \/ saveSync
  \/ ensureStage
  \/ ensureTables
  \/ ensureMaster
  \/ stageDelete
  \/ stageCreate
  \/ insertBatch
  \/ mergeStageIntoMaster
  \/ clearStage
  \/ Fail

Spec == Init /\ [][Next]_vars

(* ---------------- the loader on its own ---------------- *)
MaxMasterRows == 2

COL == sanitise(Catalogue[1].name)

\* every row over the schema's columns
SchemaRows == {[c \in {ID, COL} |-> IF c = ID THEN id ELSE v] : id \in Ids, v \in {NULL, "a"}}

RECURSIVE SeqsUpTo(_, _)
SeqsUpTo(S, n) ==
  IF n = 0 THEN {<<>>}
  ELSE LET shorter == SeqsUpTo(S, n - 1)
       IN shorter \cup {Append(q, x) : q \in {r \in shorter : Len(r) = n - 1}, x \in S}

DistinctIds(rs) == \A j, k \in 1..Len(rs) : j # k => rs[j][ID] # rs[k][ID]

\* streamToStage(rows, schema) then mergeStageIntoMaster(schema), run twice on
\* the same rows, from any master table and any leftover staging table
InitLoader ==
  /\ mode = "loader"
  /\ InitScenario
  /\ variant = "index"
  /\ clock = 1
  /\ modified = [c \in Ids |-> 0]
  /\ value = [c \in Ids |-> ""]
  /\ sync_tracker = <<>>
  /\ \E mr \in SeqsUpTo(SchemaRows, MaxMasterRows) :
       master = [exists |-> TRUE, fields |-> SchemaOf(Catalogue), rows |-> mr]
  /\ \E sr \in SeqsUpTo(SchemaRows, 1) :
       stage \in {NoTable, [exists |-> TRUE, fields |-> SchemaOf(Catalogue), rows |-> sr]}
  /\ pc = "ensureStage" /\ failedAt = "none"
  /\ props = Catalogue /\ since = 0 /\ now = 0 /\ after = NoCursor
  /\ out = <<>> /\ i = 0 /\ ensured = {} /\ firstReq = 0
  /\ rows \in {rs \in SeqsUpTo(SchemaRows, MaxId) : DistinctIds(rs)}
  /\ master0 = master /\ stage0 = stage /\ tracker0 = sync_tracker
  /\ loads = 0 /\ master1 = NoTable
  /\ tb = NoTable /\ seen = {} /\ calls = 0
  /\ InitProbe

\* the first load is over: remember the master table and load the rows again
loadAgain ==
  /\ mode = "loader"
  /\ pc = "loaded"
  /\ loads = 0
  /\ loads' = 1
  /\ master1' = master
  /\ pc' = "ensureStage"
  /\ UNCHANGED <<variant, crm, whouse, failedAt, locals, history, mode, tb, seen, calls,
                 probe, scenario>>

NextLoader ==
  \/ ensureStage
  \/ stageDelete
  \/ stageCreate
  \/ insertBatch
  \/ mergeStageIntoMaster
  \/ loadAgain
  \/ Fail

SpecLoader == InitLoader /\ [][NextLoader]_vars

(* ---------------- ensureTable on its own ---------------- *)
MaxFields == 2
MaxLen == 3
MaxPages == 3

FieldPool ==
  {[name |-> <<n>>, type |-> t, mode |-> "NULLABLE"] : n \in {"a", "b", "c"}, t \in {"STRING", "FLOAT"}}

SchemaLists == SeqsUpTo(FieldPool, MaxFields)

InitEnsure ==
  /\ mode = "ensure"
  /\ InitScenario
  /\ variant = "index"
  /\ clock = 1
  /\ modified = [c \in Ids |-> 0]
  /\ value = [c \in Ids |-> ""]
  /\ sync_tracker = <<>>
  /\ master = EmptyMaster
  /\ stage = NoTable
  /\ InitLocals
  /\ master0 = master /\ stage0 = stage /\ tracker0 = sync_tracker
  /\ loads = 0 /\ master1 = NoTable
  /\ \E fs \in {f \in SchemaLists : ~HasDupNames(f)} :
       tb \in {NoTable, [exists |-> TRUE, fields |-> fs, rows |-> <<>>]}
  /\ seen = Names(tb.fields)
  /\ calls = 0
  /\ InitProbe

\* a call ensureTable(tableName, schema) that returns
ensureCall ==
  /\ mode = "ensure"
  /\ calls < MaxCalls
  /\ \E schema \in SchemaLists :
       /\ ~ensureTableThrows(tb, schema)
       /\ tb' = ensureTable(tb, schema)
       /\ seen' = seen \cup Names(tb.fields) \cup Names(schema)
       /\ last' = [schema |-> schema, returned |-> TRUE]
  /\ calls' = calls + 1
  /\ UNCHANGED <<variant, crm, whouse, pc, failedAt, locals, history, mode, loads, master1,
                 invalid, reported, listing, allIds, issued, pending, applied,
                 names, scenario>>

\* a call ensureTable(tableName, schema) that throws: the warehouse rejects
\* the request or cannot be reached, and the table is as it was
ensureCallThrows ==
  /\ mode = "ensure"
  /\ calls < MaxCalls
  /\ calls' = calls + 1
  /\ UNCHANGED <<variant, crm, whouse, pc, failedAt, locals, history, mode, loads,
                 master1, tb, seen, probe, scenario>>

NextEnsure ==
  \/ ensureCall
  \/ ensureCallThrows

SpecEnsure == InitEnsure /\ [][NextEnsure]_vars

(* ---------------- loading after the catalogue has grown ---------------- *)
\* the catalogue once a second property, "Nw", has been added at the CRM
GrownCatalogue == Catalogue \o << [name |-> <<"N", "w">>, type |-> "string"] >>

COL2 == sanitise(GrownCatalogue[2].name)

\* every row main builds from the grown catalogue
GrownRows ==
  {[c \in {ID, COL, COL2} |-> IF c = ID THEN id ELSE IF c = COL THEN v ELSE w] :
     id \in Ids, v \in {NULL, "a"}, w \in {NULL, "a"}}

\* main has fetched the grown catalogue and some contacts and starts to load;
\* the warehouse tables, if any, were made by runs that saw the old catalogue
InitEvolve ==
  /\ mode = "evolve"
  /\ InitScenario
  /\ variant \in {"index", "part_005"}
  /\ clock = 1
  /\ modified = [c \in Ids |-> 0]
  /\ value = [c \in Ids |-> ""]
  /\ sync_tracker = <<>>
  /\ \E mr \in SeqsUpTo(SchemaRows, 1) :
       master \in {NoTable, [exists |-> TRUE, fields |-> SchemaOf(Catalogue), rows |-> mr]}
  /\ stage \in {NoTable, [exists |-> TRUE, fields |-> SchemaOf(Catalogue), rows |-> <<>>]}
  /\ pc = firstLoadStep /\ failedAt = "none"
  /\ props = GrownCatalogue /\ since = 0 /\ now = 0 /\ after = NoCursor
  /\ out = <<>> /\ i = 0 /\ ensured = {} /\ firstReq = 0
  /\ rows \in {rs \in SeqsUpTo(GrownRows, MaxId) : DistinctIds(rs) /\ Len(rs) > 0}
  /\ master0 = master /\ stage0 = stage /\ tracker0 = sync_tracker
  /\ loads = 0 /\ master1 = NoTable
  /\ tb = NoTable /\ seen = {} /\ calls = 0
  /\ InitProbe

NextEvolve ==
  \/ ensureStage
  \/ ensureMaster
  \/ stageDelete
  \/ stageCreate
  \/ insertBatch
  \/ mergeStageIntoMaster
  \/ Fail

SpecEvolve == InitEvolve /\ [][NextEvolve]_vars

(* ---------------- inserts with rejected rows ---------------- *)
\* streamToStage: stage.insert rejects with PartialFailureError because some
\* row of the slice is invalid; the valid rows of the slice are stored.  The
\* call is not inside a try block, so the rejection leaves streamToStage and
\* reaches the catch of main.
insertBatchPartial ==
  /\ pc = "insert"
  /\ stage.exists
  /\ LET hi    == IF i + batchLen < Len(rows) THEN i + batchLen ELSE Len(rows)
         slice == SubSeq(rows, i + 1, hi)
     IN /\ Rejected(slice) # {}
        /\ \E dedup \in BOOLEAN : stage' = tableInsert(stage, Accepted(slice), dedup)
  /\ failedAt' = "partialFailure"
  /\ pc' = "failed"
  /\ UNCHANGED <<variant, crm, sync_tracker, master, locals, history, harness>>

\* insertBatches (first script of index.js): one iteration of the loop.  A
\* PartialFailureError is caught and logged, and the loop goes on.
insertBatches ==
  /\ pc = "insertBatches"
  /\ master.exists
  /\ LET hi    == IF i + BatchSize < Len(rows) THEN i + BatchSize ELSE Len(rows)
         slice == SubSeq(rows, i + 1, hi)
     IN /\ \E dedup \in BOOLEAN : master' = tableInsert(master, Accepted(slice), dedup)
        /\ i' = i + BatchSize
        /\ pc' = IF i + BatchSize < Len(rows) THEN "insertBatches" ELSE "report"
  /\ UNCHANGED <<variant, crm, sync_tracker, stage, failedAt, props, since, now,
                 after, out, rows, ensured, firstReq, history, harness>>

\* main (first script): console.log(`Uploaded ${rows.length} contacts ...`)
reportUploaded ==
  /\ pc = "report"
  /\ reported' = Len(rows)
  /\ pc' = "done"
  /\ UNCHANGED <<variant, crm, whouse, failedAt, locals, history, mode, loads,
                 master1, tb, seen, calls, last, invalid, listing, allIds,
                 issued, pending, applied,
                 names, scenario>>

\* the load step of a run whose rows are built and whose table is ready; the
\* warehouse will reject the rows with an id in invalid
InitBatch ==
  /\ mode = "batch"
  /\ InitScenario
  /\ variant \in {"index_v1", "index"}
  /\ clock = 1
  /\ modified = [c \in Ids |-> 0]
  /\ value = [c \in Ids |-> ""]
  /\ sync_tracker = <<>>
  /\ master = EmptyMaster
  /\ stage = IF variant = "index" THEN EmptyMaster ELSE NoTable
  /\ pc = (IF variant = "index" THEN "insert" ELSE "insertBatches")
  /\ failedAt = "none"
  /\ props = Catalogue /\ since = 0 /\ now = 0 /\ after = NoCursor
  /\ out = <<>> /\ i = 0 /\ ensured = {} /\ firstReq = 0
  /\ rows \in {rs \in SeqsUpTo(SchemaRows, MaxId) : DistinctIds(rs) /\ Len(rs) > 0}
  /\ master0 = master /\ stage0 = stage /\ tracker0 = sync_tracker
  /\ loads = 0 /\ master1 = NoTable
  /\ tb = NoTable /\ seen = {} /\ calls = 0
  /\ last = NoCall /\ invalid \in SUBSET Ids /\ reported = 0
  /\ listing = {} /\ allIds = <<>> /\ issued = FALSE
  /\ pending = {} /\ applied = {} /\ names = <<>>

NextBatch ==
  \/ insertBatch
  \/ insertBatchPartial
  \/ mergeStageIntoMaster
  \/ insertBatches
  \/ reportUploaded
  \/ Fail

SpecBatch == InitBatch /\ [][NextBatch]_vars

(* ---------------- the cleanup scripts ---------------- *)
\* the contact ids of the source: those of the master table and one more
SourceIds == 1..(MaxId + 1)

deleteNotIn_in(T, keys) ==
  [T EXCEPT !.rows = SelectSeq(@, LAMBDA r : \A k \in 1..Len(keys) : keys[k] # r[ID])]

\* part_007: DELETE FROM Contacts WHERE id NOT IN (?, ..., ?)
deleteNotIn(T, keys) ==
  [T EXCEPT !.rows = SelectSeq(@, LAMBDA r : \E k \in 1..Len(keys) : keys[k] = r[ID])]

deleteIn_all(T, keys) == [T EXCEPT !.rows = <<>>]

\* cleanup.js: DELETE FROM table WHERE id IN UNNEST(@ids)
deleteIn(T, keys) ==
  [T EXCEPT !.rows = SelectSeq(@, LAMBDA r : \A k \in 1..Len(keys) : keys[k] # r[ID])]

\* one request of the id listing (live contacts in part_007, archived
\* contacts in cleanup.js): the do-while body
listPage ==
  /\ pc = "listPage"
  /\ LET all  == {c \in listing : c > after}
         page == FirstN(all, PageLimit)
         next == IF all \ page # {} THEN Max(page) ELSE NoCursor
     IN /\ allIds' = allIds \o SortedSeq(page)
        /\ after' = next
        /\ pc' = IF next # NoCursor THEN "listPage" ELSE "delete"
  /\ UNCHANGED <<variant, crm, whouse, failedAt, props, since, now, out, rows, i,
                 ensured, firstReq, history, mode, loads, master1, tb, seen,
                 calls, last, invalid, reported, listing, issued, pending, applied,
                 names, scenario>>

\* if (allIds.length === 0) return  /  if (!ids.length) return
skipDelete ==
  /\ pc = "delete"
  /\ Len(allIds) = 0
  /\ pc' = "done"
  /\ UNCHANGED <<variant, crm, whouse, failedAt, locals, history, harness>>

deleteNotLive_early ==
  /\ pc \in {"listPage", "delete"}
  /\ variant = "part_007"
  /\ Len(allIds) > 0
  /\ master.exists
  /\ master' = deleteNotIn(master, allIds)
  /\ issued' = TRUE
  /\ reported' = Len(master.rows) - Len(master'.rows)
  /\ pc' = "done"
  /\ UNCHANGED <<variant, crm, sync_tracker, stage, failedAt, locals, history,
                 mode, loads, master1, tb, seen, calls, last, invalid, listing,
                 allIds, pending, applied,
                 names, scenario>>

\* part_007: the DELETE job and its dmlStats.deletedRowCount
deleteNotLive ==
  /\ pc = "delete"
  /\ variant = "part_007"
  /\ Len(allIds) > 0
  /\ master.exists
  /\ master' = deleteNotIn(master, allIds)
  /\ issued' = TRUE
  /\ reported' = Len(master.rows) - Len(master'.rows)
  /\ pc' = "done"
  /\ UNCHANGED <<variant, crm, sync_tracker, stage, failedAt, locals, history,
                 mode, loads, master1, tb, seen, calls, last, invalid, listing,
                 allIds, pending, applied,
                 names, scenario>>

\* cleanup.js deleteFromBQ: the DELETE query, then the log of ids.length
deleteFromBQ ==
  /\ pc = "delete"
  /\ variant = "cleanup"
  /\ Len(allIds) > 0
  /\ master.exists
  /\ master' = deleteIn(master, allIds)
  /\ issued' = TRUE
  /\ reported' = Len(allIds)
  /\ pc' = "done"
  /\ UNCHANGED <<variant, crm, sync_tracker, stage, failedAt, locals, history,
                 mode, loads, master1, tb, seen, calls, last, invalid, listing,
                 allIds, pending, applied,
                 names, scenario>>

\* a cleanup process starts: any master table, any listing at the source
InitCleanup ==
  /\ mode = "cleanup"
  /\ InitScenario
  /\ variant \in {"part_007", "cleanup"}
  /\ clock = 1
  /\ modified = [c \in Ids |-> 0]
  /\ value = [c \in Ids |-> ""]
  /\ sync_tracker = <<>>
  /\ \E mr \in SeqsUpTo(SchemaRows, MaxMasterRows) :
       master = [exists |-> TRUE, fields |-> SchemaOf(Catalogue), rows |-> mr]
  /\ stage = NoTable
  /\ pc = "listPage" /\ failedAt = "none"
  /\ props = <<>> /\ since = 0 /\ now = 0 /\ after = NoCursor
  /\ out = <<>> /\ rows = <<>> /\ i = 0 /\ ensured = {} /\ firstReq = 0
  /\ master0 = master /\ stage0 = stage /\ tracker0 = sync_tracker
  /\ loads = 0 /\ master1 = NoTable
  /\ tb = NoTable /\ seen = {} /\ calls = 0
  /\ last = NoCall /\ invalid = {} /\ reported = 0
  /\ listing \in SUBSET SourceIds /\ allIds = <<>> /\ issued = FALSE
  /\ pending = {} /\ applied = {} /\ names = <<>>

NextCleanup ==
  \/ listPage
  \/ skipDelete
  \/ deleteNotLive
  \/ deleteFromBQ
  \/ Fail

SpecCleanup == InitCleanup /\ [][NextCleanup]_vars

(* ---------------- merging chunk responses ---------------- *)
\* the property chunks of one sweep
Chunks == {"first", "second"}

\* the property a chunk asks for
ChunkProp(k) == IF k = "first" THEN <<"a">> ELSE <<"b">>

\* a property the API may return whether or not the chunk asked for it
DefaultProp == <<"k">>

\* the results a chunk's requests may deliver: c.id and c.properties, with
\* the values as the API read them while serving that chunk
Responses ==
  UNION {{[id |-> c, chunk |-> k, properties |-> [f \in S |-> k]] :
            c \in Ids, S \in {{ChunkProp(k)}, {ChunkProp(k), DefaultProp}}} :
         k \in Chunks}

mergeChunk_replaces(contacts, c) ==
  LET keys == {ID} \cup DOMAIN c.properties
      rec  == [f \in keys |-> IF f \in DOMAIN c.properties THEN c.properties[f] ELSE c.id]
  IN [x \in (DOMAIN contacts) \cup {c.id} |-> IF x = c.id THEN rec ELSE contacts[x]]

\* contacts[c.id] = { id: c.id, ...(contacts[c.id] || {}), ...c.properties }
mergeChunk(contacts, c) ==
  LET old  == IF c.id \in DOMAIN contacts THEN contacts[c.id] ELSE <<>>
      keys == {ID} \cup DOMAIN old \cup DOMAIN c.properties
      rec  == [f \in keys |-> IF f \in DOMAIN c.properties THEN c.properties[f]
                              ELSE IF f \in DOMAIN old THEN old[f] ELSE c.id]
  IN [x \in (DOMAIN contacts) \cup {c.id} |-> IF x = c.id THEN rec ELSE contacts[x]]

\* data.results.forEach(c => ...) for one result of one chunk's response
applyResponse ==
  /\ pc = "chunks"
  /\ \E r \in pending \ applied :
       /\ out' = mergeChunk(out, r)
       /\ applied' = applied \cup {r}
  /\ UNCHANGED <<variant, crm, whouse, pc, failedAt, props, since, now, after,
                 rows, i, ensured, firstReq, history, mode, loads, master1, tb,
                 seen, calls, last, invalid, reported, listing, allIds, issued,
                 pending, names, scenario>>

\* return Object.values(contacts)
returnContacts ==
  /\ pc = "chunks"
  /\ applied = pending
  /\ pc' = "done"
  /\ UNCHANGED <<variant, crm, whouse, failedAt, locals, history, harness>>

\* fetchContacts of a chunked script with contacts = {}; each chunk
\* delivers at most one result per contact
InitChunks ==
  /\ mode = "chunks"
  /\ InitScenario
  /\ variant \in {"part_000", "part_004"}
  /\ clock = 1
  /\ modified = [c \in Ids |-> 0]
  /\ value = [c \in Ids |-> ""]
  /\ sync_tracker = <<>>
  /\ master = EmptyMaster
  /\ stage = NoTable
  /\ pc = "chunks" /\ failedAt = "none"
  /\ props = <<>> /\ since = 0 /\ now = 0 /\ after = NoCursor
  /\ out = <<>> /\ rows = <<>> /\ i = 0 /\ ensured = {} /\ firstReq = 0
  /\ master0 = master /\ stage0 = stage /\ tracker0 = sync_tracker
  /\ loads = 0 /\ master1 = NoTable
  /\ tb = NoTable /\ seen = {} /\ calls = 0
  /\ last = NoCall /\ invalid = {} /\ reported = 0
  /\ listing = {} /\ allIds = <<>> /\ issued = FALSE
  /\ pending \in {P \in SUBSET Responses :
                    \A r, q \in P : (r.id = q.id /\ r.chunk = q.chunk) => r = q}
  /\ applied = {} /\ names = <<>>

NextChunks ==
  \/ applyResponse
  \/ returnContacts

SpecChunks == InitChunks /\ [][NextChunks]_vars

(* ---------------- sanitise applied again ---------------- *)
\* the characters of a property name: upper and lower case letters, a
\* digit, the underscore and a character outside [a-z0-9_]
NameChars == {"A", "b", "p", "1", "_", "-"}

\* names[1] is a property name, names[k + 1] = sanitise(names[k])
sanitiseCall ==
  /\ mode = "sanitise"
  /\ Len(names) < 3
  /\ names' = Append(names, sanitise(names[Len(names)]))
  /\ UNCHANGED <<variant, crm, whouse, pc, failedAt, locals, history, mode,
                 loads, master1, tb, seen, calls, last, invalid, reported,
                 listing, allIds, issued, pending, applied, scenario>>

InitSanitise ==
  /\ mode = "sanitise"
  /\ InitScenario
  /\ variant = "index"
  /\ clock = 1
  /\ modified = [c \in Ids |-> 0]
  /\ value = [c \in Ids |-> ""]
  /\ sync_tracker = <<>>
  /\ master = EmptyMaster
  /\ stage = NoTable
  /\ InitLocals
  /\ master0 = master /\ stage0 = stage /\ tracker0 = sync_tracker
  /\ loads = 0 /\ master1 = NoTable
  /\ tb = NoTable /\ seen = {} /\ calls = 0
  /\ last = NoCall /\ invalid = {} /\ reported = 0
  /\ listing = {} /\ allIds = <<>> /\ issued = FALSE
  /\ pending = {} /\ applied = {}
  /\ \E x \in SeqsUpTo(NameChars, MaxLen) : names = <<x>>

NextSanitise == sanitiseCall

SpecSanitise == InitSanitise /\ [][NextSanitise]_vars

(* ---------------- schemas of other catalogues ---------------- *)
\* source property names: two that differ in case only, two that differ in
\* a character sanitise replaces, and one named like the injected column
SourceNames == {<<"E", "m">>, <<"e", "m">>, <<"E", "-">>, <<"E", "_">>, <<"i", "d">>}

\* the catalogues of up to MaxFields properties with pairwise distinct names
DistinctCatalogues ==
  {ps \in SeqsUpTo({[name |-> n, type |-> "string"] : n \in SourceNames}, MaxFields) :
     \A j, k \in 1..Len(ps) : j # k => ps[j].name # ps[k].name}

\* main has fetched some catalogue and one contact without values, on a
\* warehouse that has neither table yet, and starts to load
InitSchema ==
  /\ mode = "schema"
  /\ InitScenario
  /\ variant \in {"index", "part_005"}
  /\ clock = 1
  /\ modified = [c \in Ids |-> 0]
  /\ value = [c \in Ids |-> ""]
  /\ sync_tracker = <<>>
  /\ master \in {NoTable, EmptyMaster}
  /\ stage = NoTable
  /\ pc = firstLoadStep /\ failedAt = "none"
  /\ props \in DistinctCatalogues
  /\ since = 0 /\ now = 0 /\ after = NoCursor
  /\ out = <<>> /\ i = 0 /\ ensured = {} /\ firstReq = 0
  /\ rows = << [c \in Names(Schema) |-> IF c = ID THEN 1 ELSE NULL] >>
  /\ master0 = master /\ stage0 = stage /\ tracker0 = sync_tracker
  /\ loads = 0 /\ master1 = NoTable
  /\ tb = NoTable /\ seen = {} /\ calls = 0
  /\ InitProbe

NextSchema ==
  \/ ensureStage
  \/ ensureMaster
  \/ stageDelete
  \/ stageCreate
  \/ insertBatch
  \/ mergeStageIntoMaster
  \/ Fail

SpecSchema == InitSchema /\ [][NextSchema]_vars

(* ---------------- fetching the property catalogue ---------------- *)
\* a page of the properties endpoint: data.results
PagePool ==
  {<<>>, << [name |-> <<"a">>, type |-> "string"] >>,
         << [name |-> <<"b">>, type |-> "string"] >>}

\* getProps: one iteration of the do-while loop.  The request carries the
\* cursor of the page before (none on the first request); page k carries
\* the cursor k unless it is the last one.
getPropsPage ==
  /\ pc = "catalogue"
  /\ variant = "index"
  /\ LET k == after + 1
     IN /\ requested' = Append(requested, k)
        /\ props' = props \o pages[k]
        /\ after' = IF k < Len(pages) THEN k ELSE NoCursor
        /\ pc' = IF k < Len(pages) THEN "catalogue" ELSE "done"
  /\ UNCHANGED <<variant, crm, whouse, failedAt, since, now, out, rows, i,
                 ensured, firstReq, history, mode, loads, master1, tb, seen,
                 calls, probe, pages, stored, window, contact, env, effects,
                 exitCode>>

\* part_002 getAllPropertyNames: one request without a cursor, and
\* res.data.results is returned
getAllPropertyNames ==
  /\ pc = "catalogue"
  /\ variant = "part_002"
  /\ requested' = Append(requested, 1)
  /\ props' = pages[1]
  /\ pc' = "done"
  /\ UNCHANGED <<variant, crm, whouse, failedAt, since, now, after, out, rows, i,
                 ensured, firstReq, history, mode, loads, master1, tb, seen,
                 calls, probe, pages, stored, window, contact, env, effects,
                 exitCode>>

\* a script is about to fetch the catalogue, which the source serves as a
\* chain of one to MaxPages pages
InitCatalogue ==
  /\ mode = "catalogue"
  /\ variant \in {"index", "part_002"}
  /\ clock = 1
  /\ modified = [c \in Ids |-> 0]
  /\ value = [c \in Ids |-> ""]
  /\ sync_tracker = <<>>
  /\ master = EmptyMaster
  /\ stage = NoTable
  /\ pc = "catalogue" /\ failedAt = "none"
  /\ props = <<>> /\ since = 0 /\ now = 0 /\ after = NoCursor
  /\ out = <<>> /\ rows = <<>> /\ i = 0 /\ ensured = {} /\ firstReq = 0
  /\ master0 = master /\ stage0 = stage /\ tracker0 = sync_tracker
  /\ loads = 0 /\ master1 = NoTable
  /\ tb = NoTable /\ seen = {} /\ calls = 0
  /\ InitProbe
  /\ pages \in SeqsUpTo(PagePool, MaxPages) \ {<<>>}
  /\ requested = <<>>
  /\ stored = "none" /\ window = NoWindow
  /\ contact = <<>> /\ env = {} /\ effects = <<>>
  /\ exitCode = "running"

NextCatalogue ==
  \/ getPropsPage
  \/ getAllPropertyNames
  \/ Fail

SpecCatalogue == InitCatalogue /\ [][NextCatalogue]_vars

(* ---------------- lastSync on other stored values ---------------- *)
\* what the query of lastSync finds: no row, or a row whose
\* last_sync_timestamp is a timestamp (ms, in days), NULL, or a value that
\* new Date() cannot parse
StoredCells ==
  {[present |-> FALSE, cell |-> "none", ms |-> 0],
   [present |-> TRUE, cell |-> "null", ms |-> 0],
   [present |-> TRUE, cell |-> "garbage", ms |-> 0]}
  \cup {[present |-> TRUE, cell |-> "timestamp", ms |-> t] : t \in 1..MaxClock}

Fallback(clk) == [kind |-> "number", value |-> clk - ThirtyDays]

\* new Date(ts.value || ts).getTime()
getTime(st) ==
  IF st.cell = "timestamp" THEN [kind |-> "number", value |-> st.ms]
  ELSE [kind |-> "NaN", value |-> 0]

\* how lastSync ends in each script
lastSyncOf(v, st, clk) ==
  CASE v = "index" ->
         \* if (rows.length && rows[0].last_sync_timestamp) return getTime
         IF st.present /\ st.cell # "null" THEN getTime(st) ELSE Fallback(clk)
    [] v = "index_v1" ->
         \* r.length ? new Date(r[0].last_sync_timestamp.value || ...).getTime()
         IF ~st.present THEN Fallback(clk)
         ELSE IF st.cell = "null" THEN [kind |-> "TypeError", value |-> 0]
         ELSE getTime(st)
    [] v = "part_002" ->
         \* if (!isNaN(parsedDate)) return parsedDate.getTime(); ... fallback
         IF st.present /\ st.cell = "timestamp" THEN getTime(st) ELSE Fallback(clk)

lastSyncCall ==
  /\ pc = "lastSyncCall"
  /\ window' = lastSyncOf(variant, stored, clock)
  /\ pc' = IF window'.kind = "TypeError" THEN "failed" ELSE "done"
  /\ failedAt' = IF window'.kind = "TypeError" THEN "TypeError" ELSE failedAt
  /\ UNCHANGED <<variant, crm, whouse, locals, history, mode, loads, master1, tb,
                 seen, calls, probe, pages, requested, stored, contact, env,
                 effects, exitCode>>

InitWindow ==
  /\ mode = "window"
  /\ variant \in {"index", "index_v1", "part_002"}
  /\ clock \in 1..MaxClock
  /\ modified = [c \in Ids |-> 0]
  /\ value = [c \in Ids |-> ""]
  /\ sync_tracker = <<>>
  /\ master = EmptyMaster
  /\ stage = NoTable
  /\ pc = "lastSyncCall" /\ failedAt = "none"
  /\ props = <<>> /\ since = 0 /\ now = 0 /\ after = NoCursor
  /\ out = <<>> /\ rows = <<>> /\ i = 0 /\ ensured = {} /\ firstReq = 0
  /\ master0 = master /\ stage0 = stage /\ tracker0 = sync_tracker
  /\ loads = 0 /\ master1 = NoTable
  /\ tb = NoTable /\ seen = {} /\ calls = 0
  /\ InitProbe
  /\ pages = <<>> /\ requested = <<>>
  /\ stored \in StoredCells /\ window = NoWindow
  /\ contact = <<>> /\ env = {} /\ effects = <<>>
  /\ exitCode = "running"

NextWindow ==
  \/ lastSyncCall
  \/ Fail

SpecWindow == InitWindow /\ [][NextWindow]_vars

(* ---------------- building a row from a contact ---------------- *)
\* JavaScript values of a contact's fields
JSString(t) == [kind |-> "string", text |-> t]
JSNull == [kind |-> "null", text |-> ""]
JSUndefined == [kind |-> "undefined", text |-> ""]
JSTrue == [kind |-> "boolean", text |-> "true"]
JSFalse == [kind |-> "boolean", text |-> "false"]
EmptyString == JSString("")

FieldValues ==
  {EmptyString, JSNull, JSUndefined, JSTrue, JSString("true"), JSString("TRUE"),
   JSString("false"), JSString("x"), JSString("1")}

\* a key of the contact that is no property of the catalogue
UnknownKey == <<"z", "z">>

\* the name of the property  r[undefined]  assigns to
UndefinedKey == <<"u", "n", "d", "e", "f", "i", "n", "e", "d">>

\* propMap[k]
propMap(ps, k) ==
  IF \E j \in 1..Len(ps) : ps[j].name = k THEN sanitise(k) ELSE UndefinedKey

\* typeMap[k] (part_003)
typeMap(ps, k) ==
  IF \E j \in 1..Len(ps) : ps[j].name = k
  THEN ps[CHOOSE j \in 1..Len(ps) : ps[j].name = k].type
  ELSE "undefined"

\* parseFloat(v); isNaN(num) ? null : num
parseFloatOrNull(v) ==
  IF v = JSString("1") THEN [kind |-> "number", text |-> "1"] ELSE JSNull

rowValue_keepsEmptyString(v, t, x) ==
  IF x \in {JSNull, JSUndefined} THEN JSNull
  ELSE IF v = "part_003" /\ t = "number" THEN parseFloatOrNull(x)
  ELSE IF v = "part_003" /\ t = "bool"
       THEN (IF x = JSString("true") \/ x = JSTrue THEN JSTrue ELSE JSFalse)
  ELSE x

\* the value written for a field of declared type t holding x:
\* index.js  (v === '' ? null : v ?? null);  part_003 the type switch
rowValue(v, t, x) ==
  IF x = EmptyString \/ x \in {JSNull, JSUndefined} THEN JSNull
  ELSE IF v = "part_003" /\ t = "number" THEN parseFloatOrNull(x)
  ELSE IF v = "part_003" /\ t = "bool"
       THEN (IF x = JSString("true") \/ x = JSTrue THEN JSTrue ELSE JSFalse)
  ELSE x

\* contacts.map(c => { const r = { id: c.id }; for ([k, v] of entries(c)) ... })
buildRow(v, ps, c) ==
  LET keys == (DOMAIN c) \ {ID}
      cols == {propMap(ps, k) : k \in keys}
      src(col) == CHOOSE k \in keys : propMap(ps, k) = col
  IN [col \in {ID} \cup cols |->
        IF col \in cols
        THEN rowValue(v, typeMap(ps, src(col)), c[src(col)])
        ELSE c[ID]]

\* main: step 3, for one fetched contact
buildRowsCall ==
  /\ pc = "buildRows"
  /\ rows' = << buildRow(variant, props, contact) >>
  /\ pc' = "done"
  /\ UNCHANGED <<variant, crm, whouse, failedAt, props, since, now, after, out, i,
                 ensured, firstReq, history, harness>>

\* the contacts a sweep may return for a catalogue of one property, Em, of
\* some declared type: the property with any value, and possibly one key
\* the catalogue does not know
FetchedContacts ==
  {[k \in {ID, Catalogue[1].name} |-> IF k = ID THEN JSString("1") ELSE x] :
     x \in FieldValues}
  \cup {[k \in {ID, Catalogue[1].name, UnknownKey} |->
           IF k = ID THEN JSString("1") ELSE IF k = UnknownKey THEN y ELSE x] :
          x \in FieldValues, y \in {EmptyString, JSString("x")}}

InitRows ==
  /\ mode = "rows"
  /\ variant \in {"index", "part_003"}
  /\ clock = 1
  /\ modified = [c \in Ids |-> 0]
  /\ value = [c \in Ids |-> ""]
  /\ sync_tracker = <<>>
  /\ master = EmptyMaster
  /\ stage = NoTable
  /\ pc = "buildRows" /\ failedAt = "none"
  /\ \E t \in {"string", "number", "bool"} :
       props = << [name |-> Catalogue[1].name, type |-> t] >>
  /\ since = 0 /\ now = 0 /\ after = NoCursor
  /\ out = <<>> /\ rows = <<>> /\ i = 0 /\ ensured = {} /\ firstReq = 0
  /\ master0 = master /\ stage0 = stage /\ tracker0 = sync_tracker
  /\ loads = 0 /\ master1 = NoTable
  /\ tb = NoTable /\ seen = {} /\ calls = 0
  /\ InitProbe
  /\ pages = <<>> /\ requested = <<>>
  /\ stored = "none" /\ window = NoWindow
  /\ contact \in FetchedContacts
  /\ env = {} /\ effects = <<>>
  /\ exitCode = "running"

NextRows == buildRowsCall

SpecRows == InitRows /\ [][NextRows]_vars

(* ---------------- entry points: configuration and exit status ---------------- *)
\* the options read from process.env
Options == {"HUBSPOT_TOKEN", "BQ_PROJECT_ID", "BQ_DATASET", "BQ_TABLE"}

\* the options a script reads
Required(v) ==
  IF v \in {"cleanup", "part_002"} THEN Options ELSE Options \ {"BQ_TABLE"}

\* the first requests of a script, in the order its main sends them:
\* index.js getProps then lastSync; part_002 getLastSyncTimestamp then
\* getAllPropertyNames; the cleanup scripts list the ids and then delete
RequestsOf(v) ==
  IF v = "part_002" THEN <<"warehouse", "source">> ELSE <<"source", "warehouse">>

\* does the endpoint accept the request?  The token goes into the
\* Authorization header, the project, dataset and table into the SQL text
Accepts(v, kind) ==
  IF kind = "source" THEN "HUBSPOT_TOKEN" \in env
  ELSE Required(v) \ {"HUBSPOT_TOKEN"} \subseteq env

\* the exit status after the catch block of main
exitOnError(v) == IF v = "part_002" THEN "0" ELSE "1"

\* module load: dotenv, axios.create, new BigQuery; nothing is validated
startup ==
  /\ pc = "startup"
  /\ pc' = "request"
  /\ UNCHANGED <<variant, crm, whouse, failedAt, locals, history, harness>>

\* an awaited request is sent and answered
request ==
  /\ pc = "request"
  /\ LET kind == RequestsOf(variant)[i + 1]
     IN /\ effects' = Append(effects, kind)
        /\ IF Accepts(variant, kind)
           THEN /\ i' = i + 1
                /\ pc' = IF i + 1 < Len(RequestsOf(variant)) THEN "request" ELSE "exit"
                /\ failedAt' = failedAt
           ELSE /\ i' = i
                /\ pc' = "catch"
                /\ failedAt' = kind
  /\ UNCHANGED <<variant, crm, whouse, props, since, now, after, out, rows,
                 ensured, firstReq, history, mode, loads, master1, tb, seen,
                 calls, probe, pages, requested, stored, window, contact, env,
                 exitCode>>

\* an awaited request is sent and fails for a reason other than the options
requestThrows ==
  /\ pc = "request"
  /\ effects' = Append(effects, RequestsOf(variant)[i + 1])
  /\ failedAt' = "unavailable"
  /\ pc' = "catch"
  /\ UNCHANGED <<variant, crm, whouse, locals, history, mode, loads, master1, tb,
                 seen, calls, probe, pages, requested, stored, window, contact,
                 env, exitCode>>

\* catch (e) { console.error(...); process.exit(1) }  -- part_002 only logs
catchError ==
  /\ pc = "catch"
  /\ exitCode' = exitOnError(variant)
  /\ pc' = "failed"
  /\ UNCHANGED <<variant, crm, whouse, failedAt, locals, history, mode, loads,
                 master1, tb, seen, calls, probe, pages, requested, stored,
                 window, contact, env, effects>>

\* main returns and the process ends
exitNormally ==
  /\ pc = "exit"
  /\ exitCode' = "0"
  /\ pc' = "done"
  /\ UNCHANGED <<variant, crm, whouse, failedAt, locals, history, mode, loads,
                 master1, tb, seen, calls, probe, pages, requested, stored,
                 window, contact, env, effects>>

\* a script is started with some of the options set
InitEntry ==
  /\ mode = "entry"
  /\ variant \in {"index", "part_002", "part_007", "cleanup"}
  /\ clock = 1
  /\ modified = [c \in Ids |-> 0]
  /\ value = [c \in Ids |-> ""]
  /\ sync_tracker = <<>>
  /\ master = EmptyMaster
  /\ stage = NoTable
  /\ pc = "startup" /\ failedAt = "none"
  /\ props = <<>> /\ since = 0 /\ now = 0 /\ after = NoCursor
  /\ out = <<>> /\ rows = <<>> /\ i = 0 /\ ensured = {} /\ firstReq = 0
  /\ master0 = master /\ stage0 = stage /\ tracker0 = sync_tracker
  /\ loads = 0 /\ master1 = NoTable
  /\ tb = NoTable /\ seen = {} /\ calls = 0
  /\ InitProbe
  /\ pages = <<>> /\ requested = <<>>
  /\ stored = "none" /\ window = NoWindow
  /\ contact = <<>>
  /\ env \in SUBSET Options
  /\ effects = <<>>
  /\ exitCode = "running"

NextEntry ==
  \/ startup
  \/ request
  \/ requestThrows
  \/ catchError
  \/ exitNormally

SpecEntry == InitEntry /\ [][NextEntry]_vars

(* ---------------- the extraction sweep, page by page ---------------- *)
\* the property chunks a script asks for: index.js and part_002 send every
\* property in one request, the chunked scripts send one request per chunk
ChunkSeq(v) ==
  IF v \in {"index", "part_002"} THEN <<"first">> ELSE <<"first", "second">>

\* the answer to  hubspot.get('', {params})  for chunk k with cursor a:
\* the contacts of the page after a, with the chunk's property, and the
\* cursor of that page unless it is the last one
respond(k, a) ==
  [results |-> {[id |-> c, chunk |-> k, properties |-> [f \in {ChunkProp(k)} |-> k]] :
                  c \in pages[a + 1]},
   next    |-> IF a + 1 < Len(pages) THEN a + 1 ELSE NoCursor]

\* data.results.forEach(c => contacts[c.id] = {...})
RECURSIVE mergeAll(_, _)
mergeAll(contacts, results) ==
  IF results = {} THEN contacts
  ELSE LET r == CHOOSE x \in results : TRUE
       IN mergeAll(mergeChunk(contacts, r), results \ {r})

sharedSweepStep_firstOnly(contacts, a) ==
  mergeAll(contacts, respond("first", a).results)

\* part_000: for (idx ...) one request per chunk, all with the cursor a
sharedSweepStep(contacts, a) ==
  mergeAll(mergeAll(contacts, respond("first", a).results),
           respond("second", a).results)

\* Object.values(contacts)
valuesOf(contacts) ==
  LET ks == SortedSeq(DOMAIN contacts)
  IN [k \in 1..Len(ks) |-> contacts[ks[k]]]

\* index.js fetchContacts: one iteration of the do-while loop
sweepSingle ==
  /\ pc = "sweep"
  /\ variant = "index"
  /\ Len(requested) <= 2 * Len(pages)
  /\ LET r == respond("first", after)
     IN /\ out' = mergeAll(out, r.results)
        /\ after' = r.next
        /\ pc' = IF r.next # NoCursor THEN "sweep" ELSE "sweepDone"
  /\ requested' = Append(requested, <<"first", after + 1>>)
  /\ UNCHANGED <<variant, crm, whouse, failedAt, props, since, now, rows, i,
                 ensured, firstReq, history, mode, loads, master1, tb, seen,
                 calls, probe, pages, stored, window, contact, env, effects,
                 exitCode>>

\* part_002 fetchContacts: allContacts = allContacts.concat(mapped)
sweepConcat ==
  /\ pc = "sweep"
  /\ variant = "part_002"
  /\ Len(requested) <= 2 * Len(pages)
  /\ LET r  == respond("first", after)
         cs == SortedSeq(pages[after + 1])
     IN /\ rows' = rows \o [k \in 1..Len(cs) |->
                              [f \in {ID, ChunkProp("first")} |->
                                 IF f = ID THEN cs[k] ELSE "first"]]
        /\ after' = r.next
        /\ pc' = IF r.next # NoCursor THEN "sweep" ELSE "sweepDone"
  /\ requested' = Append(requested, <<"first", after + 1>>)
  /\ UNCHANGED <<variant, crm, whouse, failedAt, props, since, now, out, i,
                 ensured, firstReq, history, mode, loads, master1, tb, seen,
                 calls, probe, pages, stored, window, contact, env, effects,
                 exitCode>>

\* part_000 fetchContacts: one iteration of the do-while loop; the cursor
\* for the next iteration is the one the first chunk's response carried
sweepShared ==
  /\ pc = "sweep"
  /\ variant = "part_000"
  /\ Len(requested) <= 2 * Len(pages)
  /\ out' = sharedSweepStep(out, after)
  /\ requested' = requested \o << <<"first", after + 1>>, <<"second", after + 1>> >>
  /\ after' = respond("first", after).next
  /\ pc' = IF after' # NoCursor THEN "sweep" ELSE "sweepDone"
  /\ UNCHANGED <<variant, crm, whouse, failedAt, props, since, now, rows, i,
                 ensured, firstReq, history, mode, loads, master1, tb, seen,
                 calls, probe, pages, stored, window, contact, env, effects,
                 exitCode>>

\* part_004 (third script) fetchContacts: one iteration of the do-while
\* loop; after each request  if (!after) after = data.paging?.next?.after
sweepUnset ==
  /\ pc = "sweep"
  /\ variant = "part_004"
  /\ Len(requested) <= 2 * Len(pages)
  /\ LET r1 == respond("first", after)
         a1 == IF after = NoCursor THEN r1.next ELSE after
         r2 == respond("second", a1)
         a2 == IF a1 = NoCursor THEN r2.next ELSE a1
     IN /\ out' = mergeAll(mergeAll(out, r1.results), r2.results)
        /\ requested' = requested \o << <<"first", after + 1>>, <<"second", a1 + 1>> >>
        /\ after' = a2
        /\ pc' = IF a2 # NoCursor THEN "sweep" ELSE "sweepDone"
  /\ UNCHANGED <<variant, crm, whouse, failedAt, props, since, now, rows, i,
                 ensured, firstReq, history, mode, loads, master1, tb, seen,
                 calls, probe, pages, stored, window, contact, env, effects,
                 exitCode>>

\* return Object.values(out)  /  part_002: return allContacts
sweepReturn ==
  /\ pc = "sweepDone"
  /\ rows' = IF variant = "part_002" THEN rows ELSE valuesOf(out)
  /\ pc' = "done"
  /\ UNCHANGED <<variant, crm, whouse, failedAt, props, since, now, after, out, i,
                 ensured, firstReq, history, harness>>

\* fetchContacts starts; the source serves the filtered contact list as one
\* to MaxPages pages, and a contact may show on more than one page
InitSweep ==
  /\ mode = "sweep"
  /\ variant \in {"index", "part_000", "part_002", "part_004"}
  /\ clock = 1
  /\ modified = [c \in Ids |-> 0]
  /\ value = [c \in Ids |-> ""]
  /\ sync_tracker = <<>>
  /\ master = EmptyMaster
  /\ stage = NoTable
  /\ pc = "sweep" /\ failedAt = "none"
  /\ props = <<>> /\ since = 0 /\ now = 0 /\ after = NoCursor
  /\ out = <<>> /\ rows = <<>> /\ i = 0 /\ ensured = {} /\ firstReq = 0
  /\ master0 = master /\ stage0 = stage /\ tracker0 = sync_tracker
  /\ loads = 0 /\ master1 = NoTable
  /\ tb = NoTable /\ seen = {} /\ calls = 0
  /\ InitProbe
  /\ pages \in SeqsUpTo(SUBSET Ids, MaxPages) \ {<<>>}
  /\ requested = <<>>
  /\ stored = "none" /\ window = NoWindow
  /\ contact = <<>> /\ env = {} /\ effects = <<>>
  /\ exitCode = "running"

NextSweep ==
  \/ sweepSingle
  \/ sweepConcat
  \/ sweepShared
  \/ sweepUnset
  \/ sweepReturn
  \/ Fail

SpecSweep == InitSweep /\ [][NextSweep]_vars

(* ---------------- the merge into a wider master ---------------- *)
\* mergeStageIntoMaster(schema) is about to run: the master table was made
\* by runs that saw the grown catalogue and holds their rows, this run's
\* catalogue lacks the second property, and the staging table holds the
\* run's rows
InitFrame ==
  /\ mode = "frame"
  /\ InitScenario
  /\ variant = "index"
  /\ clock = 1
  /\ modified = [c \in Ids |-> 0]
  /\ value = [c \in Ids |-> ""]
  /\ sync_tracker = <<>>
  /\ \E mr \in {rs \in SeqsUpTo(GrownRows, MaxMasterRows) : DistinctIds(rs)} :
       master = [exists |-> TRUE, fields |-> SchemaOf(GrownCatalogue), rows |-> mr]
  /\ props = Catalogue
  /\ rows \in {rs \in SeqsUpTo(SchemaRows, MaxId) : Len(rs) > 0}
  /\ stage = [exists |-> TRUE, fields |-> SchemaOf(Catalogue), rows |-> rows]
  /\ pc = "merge" /\ failedAt = "none"
  /\ since = 0 /\ now = 0 /\ after = NoCursor
  /\ out = <<>> /\ i = Len(rows) /\ ensured = {} /\ firstReq = 0
  /\ master0 = master /\ stage0 = stage /\ tracker0 = sync_tracker
  /\ loads = 0 /\ master1 = NoTable
  /\ tb = NoTable /\ seen = {} /\ calls = 0
  /\ InitProbe

NextFrame ==
  \/ mergeStageIntoMaster
  \/ Fail

SpecFrame == InitFrame /\ [][NextFrame]_vars

(* ---------------- a cleanup overlapping a sync ---------------- *)
\* a contact is created at the source while the cleanup is running; its id
\* is one the source never gave out before
sourceCreate ==
  /\ mode = "overlap"
  /\ pc \in {"listPage", "delete"}
  /\ \E c \in SourceIds \ (listing \cup IdsOf(master.rows)) :
       listing' = listing \cup {c}
  /\ UNCHANGED <<variant, crm, whouse, pc, failedAt, locals, history, mode, loads,
                 master1, tb, seen, calls, last, invalid, reported, allIds,
                 issued, pending, applied, names, scenario>>

\* the row the concurrent sync run has staged for contact c
stagedFor(c) ==
  [exists |-> TRUE, fields |-> SchemaOf(Catalogue),
   rows   |-> << [f \in {ID, COL} |-> IF f = ID THEN c ELSE "a"] >>]

\* the hourly sync run, active at the same time, merges a live contact it
\* has extracted into the master table
syncMerge ==
  /\ mode = "overlap"
  /\ pc \in {"listPage", "delete"}
  /\ master.exists
  /\ \E c \in listing \ IdsOf(master.rows) :
       master' = [master EXCEPT
                    !.rows = mergeRows(master, stagedFor(c), SchemaOf(Catalogue))]
  /\ UNCHANGED <<variant, crm, sync_tracker, stage, pc, failedAt, locals, history,
                 harness>>

\* the nightly cleanup starts while a sync run is active
InitOverlap ==
  /\ mode = "overlap"
  /\ InitScenario
  /\ variant = "part_007"
  /\ clock = 1
  /\ modified = [c \in Ids |-> 0]
  /\ value = [c \in Ids |-> ""]
  /\ sync_tracker = <<>>
  /\ \E mr \in {rs \in SeqsUpTo(SchemaRows, MaxMasterRows) : DistinctIds(rs)} :
       master = [exists |-> TRUE, fields |-> SchemaOf(Catalogue), rows |-> mr]
  /\ stage = NoTable
  /\ pc = "listPage" /\ failedAt = "none"
  /\ props = <<>> /\ since = 0 /\ now = 0 /\ after = NoCursor
  /\ out = <<>> /\ rows = <<>> /\ i = 0 /\ ensured = {} /\ firstReq = 0
  /\ master0 = master /\ stage0 = stage /\ tracker0 = sync_tracker
  /\ loads = 0 /\ master1 = NoTable
  /\ tb = NoTable /\ seen = {} /\ calls = 0
  /\ last = NoCall /\ invalid = {} /\ reported = 0
  /\ listing \in SUBSET SourceIds /\ allIds = <<>> /\ issued = FALSE
  /\ pending = {} /\ applied = {} /\ names = <<>>

NextOverlap ==
  \/ listPage
  \/ skipDelete
  \/ deleteNotLive
  \/ sourceCreate
  \/ syncMerge
  \/ Fail

SpecOverlap == InitOverlap /\ [][NextOverlap]_vars

(* ---------------- two sync runs on one staging table ---------------- *)
\* the other run's streamToStage: stage.delete({ignoreNotFound:true}) on the
\* shared Contacts_stage; calls is the other run's position (0 before its
\* delete, 1 after it, 2 after its create)
otherStageDelete ==
  /\ mode = "tworuns"
  /\ pc \in Running
  /\ calls = 0
  /\ stage' = NoTable
  /\ calls' = 1
  /\ UNCHANGED <<variant, crm, sync_tracker, master, pc, failedAt, locals, history,
                 mode, loads, master1, tb, seen, probe, scenario>>

\* the other run's streamToStage: stage.create({schema})
otherStageCreate ==
  /\ mode = "tworuns"
  /\ pc \in Running
  /\ calls = 1
  /\ ~stage.exists
  /\ stage' = [exists |-> TRUE, fields |-> Schema, rows |-> <<>>]
  /\ calls' = 2
  /\ UNCHANGED <<variant, crm, sync_tracker, master, pc, failedAt, locals, history,
                 mode, loads, master1, tb, seen, probe, scenario>>

\* a run of index.js has extracted its rows and saved its watermark and
\* starts streamToStage, while another run of index.js is about to do the same
InitTwoRuns ==
  /\ mode = "tworuns"
  /\ InitScenario
  /\ variant = "index"
  /\ clock = 1
  /\ modified = [c \in Ids |-> 0]
  /\ value = [c \in Ids |-> ""]
  /\ now = 1
  /\ sync_tracker = <<now>>
  /\ \E mr \in {rs \in SeqsUpTo(SchemaRows, 1) : DistinctIds(rs)} :
       master = [exists |-> TRUE, fields |-> SchemaOf(Catalogue), rows |-> mr]
  /\ stage \in {NoTable, [exists |-> TRUE, fields |-> SchemaOf(Catalogue), rows |-> <<>>]}
  /\ pc = "ensureStage" /\ failedAt = "none"
  /\ props = Catalogue /\ since = 0 /\ after = NoCursor
  /\ out = <<>> /\ i = 0 /\ ensured = {} /\ firstReq = 0
  /\ rows \in {rs \in SeqsUpTo(SchemaRows, MaxId) : DistinctIds(rs) /\ Len(rs) > 0}
  /\ master0 = master /\ stage0 = stage /\ tracker0 = <<>>
  /\ loads = 0 /\ master1 = NoTable
  /\ tb = NoTable /\ seen = {} /\ calls = 0
  /\ InitProbe

NextTwoRuns ==
  \/ ensureStage
  \/ stageDelete
  \/ stageCreate
  \/ insertBatch
  \/ mergeStageIntoMaster
  \/ otherStageDelete
  \/ otherStageCreate
  \/ Fail

SpecTwoRuns == InitTwoRuns /\ [][NextTwoRuns]_vars

(* ======================= claims ======================= *)
Norm(v) == IF v = "" THEN NULL ELSE v

Delivered(c) ==
  \E k \in 1..Len(master.rows) :
    master.rows[k][ID] = c /\ master.rows[k][COL] = Norm(value[c])

LoadSteps == {"ensureStage", "stageDelete", "stageCreate", "insert", "merge"}

\* C1: at-least-once delivery.  Whenever a run of index.js has completed
\* successfully, every contact that no later run will extract (its
\* last-modified time is not greater than the stored watermark) is in the
\* master table with its current values: no changed contact is skipped for
\* good, whatever runs failed before.
C1_AtLeastOnce ==
  (variant = "index" /\ pc = "done" /\ Len(sync_tracker) > 0) =>
    \A c \in Ids :
      (modified[c] > 0 /\ modified[c] <= sync_tracker[1]) => Delivered(c)

\* C2: the watermark write is the last stage.  A run of index.js whose
\* staging insert or merge fails leaves sync_tracker as it was before the run.
C2_WatermarkLast ==
  (variant = "index" /\ pc = "failed" /\ failedAt \in LoadSteps) =>
    sync_tracker = tracker0

\* C3: capture-before.  In index.js and in part_005 the timestamp a run
\* writes to sync_tracker is a clock reading taken no later than the run's
\* first contact-list request.
C3_CaptureBefore ==
  (variant \in {"index", "part_005"} /\ sync_tracker # tracker0) =>
    sync_tracker[1] <= firstReq

\* C4: a failed request of the catalogue fetch or of the pagination sweep
\* aborts the run with sync_tracker, staging and master as they were before
\* the run.
C4_FetchFailureLeavesWarehouse ==
  (pc = "failed" /\ failedAt \in {"getProps", "page"}) =>
    (sync_tracker = tracker0 /\ stage = stage0 /\ master = master0)

C4_Witness ==
  /\ variant = "index"
  /\ pc = "failed" /\ failedAt = "page"
  /\ DOMAIN out # {}
  /\ Len(master0.rows) > 0

\* C5: upsert idempotence.  Loading the same rows (distinct ids) twice in a
\* row leaves the master table exactly as it was after loading them once.
C5_LoadTwiceIsLoadOnce ==
  (mode = "loader" /\ pc = "loaded" /\ loads = 1) => master = master1

C5_Witness ==
  /\ mode = "loader" /\ pc = "loaded" /\ loads = 1
  /\ master1 # master0
  /\ \E j \in 1..Len(rows) : rows[j][ID] \in IdsOf(master0.rows)
  /\ \E j \in 1..Len(rows) : rows[j][ID] \notin IdsOf(master0.rows)

\* C6: key uniqueness.  Starting from an empty master table, after any
\* sequence of runs of index.js, failed or not, the master table holds at
\* most one row per contact id.
C6_MasterKeyUnique ==
  variant = "index" =>
    \A c \in Ids : Cardinality(RowsWithId(master.rows, c)) <= 1

C6_Witness ==
  /\ variant = "index" /\ pc = "done"
  /\ \E c \in DOMAIN out :
       /\ RowsWithId(master0.rows, c) # {}
       /\ RowsWithId(master.rows, c) # {}
  /\ Len(master.rows) = MaxId

\* C7: merge result.  A MERGE step leaves, for every staged row, a master row
\* with that id whose non-key schema columns equal the staged values (a
\* staged NULL overwrites); an id already in master keeps its number of rows
\* (updated in place) and an id new to master gets exactly its staged rows.
C7_MergeResult ==
  [][ (pc = "merge" /\ pc' \in {"done", "clearStage", "loaded"}) =>
        /\ \A s \in 1..Len(stage.rows) :
             \E k \in 1..Len(master'.rows) :
               /\ master'.rows[k][ID] = stage.rows[s][ID]
               /\ \A c \in Names(Schema) \ {ID} :
                    master'.rows[k][c] = stage.rows[s][c]
        /\ \A c \in IdsOf(master.rows) :
             Cardinality(RowsWithId(master'.rows, c)) =
               Cardinality(RowsWithId(master.rows, c))
        /\ \A c \in IdsOf(stage.rows) \ IdsOf(master.rows) :
             Cardinality(RowsWithId(master'.rows, c)) =
               Cardinality(RowsWithId(stage.rows, c)) ]_vars

C7_Witness ==
  /\ mode = "sync" /\ pc = "done"
  /\ \E k \in 1..Len(master.rows), j \in 1..Len(master0.rows), s \in 1..Len(stage.rows) :
       /\ master.rows[k][ID] = master0.rows[j][ID]
       /\ stage.rows[s][ID] = master.rows[k][ID]
       /\ master0.rows[j][COL] = "a"
       /\ stage.rows[s][COL] = NULL
       /\ master.rows[k][COL] = NULL

\* C8: zero-change no-op.  A run whose extraction returned no contact ends
\* with the staging table and the master table as they were before the run.
C8_ZeroChangeNoOp ==
  (mode = "sync" /\ pc = "done" /\ DOMAIN out = {}) =>
    (stage = stage0 /\ master = master0)

C8_Witness ==
  /\ pc = "done" /\ DOMAIN out = {}
  /\ variant \in {"index", "part_001"}
  /\ stage0.exists
  /\ Len(master0.rows) > 0

Count(rs, r) == Cardinality({k \in 1..Len(rs) : rs[k] = r})

\* C9: staging carries nothing across runs.  When a run is about to execute
\* its merge, the staging table holds only rows that this run inserted.
C9_StageOnlyThisRun ==
  (mode = "sync" /\ pc = "merge") =>
    \A s \in 1..Len(stage.rows) :
      Count(stage.rows, stage.rows[s]) <=
        Count([k \in 1..Len(rows) |-> StoredRow(stage.fields, rows[k])], stage.rows[s])

\* C10: schema superset.  After any sequence of ensureTable calls on a table
\* the table has every column name that any call was passed and every column
\* name it ever had.
C10_SchemaSuperset == mode = "ensure" => seen \subseteq Names(tb.fields)

C10_Witness ==
  /\ mode = "ensure" /\ calls = MaxCalls
  /\ \E n \in seen : n \notin {<<"a">>}
  /\ Cardinality(seen) >= 2
  /\ Len(tb.fields) = Cardinality(seen)

\* C11: schema evolution precedes loading.  When a run sends its MERGE the
\* master table exists and has every column of the run's schema, and when it
\* inserts rows the staging table does, even if a property was added at the
\* CRM since the tables were made.
C11_SchemaBeforeLoad ==
  /\ pc = "merge" =>
       (master.exists /\ Names(Schema) \subseteq Names(master.fields))
  /\ pc = "insert" =>
       (stage.exists /\ Names(Schema) \subseteq Names(stage.fields))

Conflicts(fields, schema) ==
  \E j \in 1..Len(fields), k \in 1..Len(schema) :
    fields[j].name = schema[k].name /\ fields[j].type # schema[k].type

\* C12: a schema evolution conflict is fatal.  An ensureTable call that
\* returns was not passed a column that the table holds under the same name
\* with another type.
C12_ConflictIsFatal ==
  (mode = "ensure" /\ last.returned) => ~Conflicts(tb.fields, last.schema)

\* C13: partial-batch tolerance.  A row-level partial failure of one insert
\* never aborts the load or the run, in streamToStage as in insertBatches.
C13_PartialFailureTolerated ==
  ~(pc = "failed" /\ failedAt = "partialFailure")

\* C14: the reported success count excludes rejected rows.  When the run of
\* the first script reports its upload, the count is the number of rows
\* handed to the loader minus the number the warehouse rejected.
C14_ReportedExcludesRejected ==
  (mode = "batch" /\ variant = "index_v1" /\ pc = "done")
    => reported = Len(rows) - Cardinality(Rejected(rows))

\* C15 as stated: for every set M of master ids and every set L of live ids,
\* L empty included, a successful run of the live-id reconciler leaves the
\* master table with the ids M \cap L and reports |M \ L|.
C15_AntiJoinAlways ==
  (mode = "cleanup" /\ variant = "part_007" /\ pc = "done"
     /\ DistinctIds(master0.rows))
    => /\ IdsOf(master.rows) = IdsOf(master0.rows) \cap listing
       /\ reported = Cardinality(IdsOf(master0.rows) \ listing)

\* C15 amended: when L is not empty a successful run of the live-id
\* reconciler keeps exactly the master rows whose id is in L and reports the
\* number of rows it removed, which is |M \ L| when the master table held one
\* row per id; when L is empty no delete is issued and the table is unchanged.
C15_AntiJoin ==
  (mode = "cleanup" /\ variant = "part_007" /\ pc = "done")
    => IF listing # {}
       THEN /\ issued
            /\ master.rows = SelectSeq(master0.rows, LAMBDA r : r[ID] \in listing)
            /\ IdsOf(master.rows) = IdsOf(master0.rows) \cap listing
            /\ reported = Len(master0.rows) - Len(master.rows)
            /\ DistinctIds(master0.rows)
                 => reported = Cardinality(IdsOf(master0.rows) \ listing)
       ELSE ~issued /\ master = master0

C15_Witness ==
  /\ mode = "cleanup" /\ variant = "part_007" /\ pc = "done"
  /\ Len(allIds) > PageLimit
  /\ IdsOf(master0.rows) \cap listing # {}
  /\ IdsOf(master0.rows) \ listing # {}
  /\ reported > 0

\* C16: the count a cleanup run reports after its delete is the number of
\* master rows the delete removed, not the number of candidate ids.
C16_ReportedIsRowsRemoved ==
  (mode = "cleanup" /\ pc = "done" /\ issued)
    => reported = Len(master0.rows) - Len(master.rows)

\* C17: after a successful run of cleanup.js the master table holds its
\* previous rows except those whose id the archived listing returned, on any
\* page; the other rows are unchanged, and an empty listing issues no delete.
C17_ArchivedIdsDeleted ==
  (mode = "cleanup" /\ variant = "cleanup" /\ pc = "done")
    => /\ IdsOf(master.rows) = IdsOf(master0.rows) \ listing
       /\ master.rows = SelectSeq(master0.rows, LAMBDA r : r[ID] \notin listing)
       /\ master.fields = master0.fields
       /\ listing = {} => (~issued /\ master = master0)

C17_Witness ==
  /\ mode = "cleanup" /\ variant = "cleanup" /\ pc = "done"
  /\ Len(allIds) > PageLimit
  /\ IdsOf(master0.rows) \cap listing # {}
  /\ IdsOf(master0.rows) \ listing # {}

\* C18: window correctness.  During a sweep since is the watermark the run
\* read at its start (the stored one, or thirty days before the reading of
\* the clock when none is stored) and every page is filtered by
\* hs_lastmodifieddate GT since: each contact extracted was modified after
\* since, so one modified exactly at since is left out, and when the sweep
\* ends every existing contact (modified > 0) that was modified after since
\* by the time of the first request is extracted.
C18_Window ==
  pc \in {"page", "saveSync"} =>
    /\ IF Len(tracker0) > 0
       THEN since = tracker0[1]
       ELSE since \in (1 - ThirtyDays)..(clock - ThirtyDays)
    /\ \A c \in DOMAIN out : modified[c] > since
    /\ pc = "saveSync" =>
         \A c \in Ids : (modified[c] > 0 /\ since < modified[c]
                            /\ modified[c] <= firstReq)
                          => c \in DOMAIN out

C18_Witness ==
  /\ pc = "saveSync"
  /\ \E c \in Ids : modified[c] = since /\ c \notin DOMAIN out
  /\ \E c \in DOMAIN out : modified[c] > since

DeliveredFor(id) == {r \in pending : r.id = id}

DisjointFields(rs) ==
  \A r, q \in rs : r # q => (DOMAIN r.properties) \cap (DOMAIN q.properties) = {}

\* C19: merge by id is a union of fields.  When every response has been
\* applied, in whatever order, the record of a contact has id and exactly
\* the fields its responses delivered, and when those responses deliver
\* disjoint fields each field has the value its response gave it, so the
\* result does not depend on the order.
C19_MergeIsUnion ==
  (mode = "chunks" /\ pc = "done") =>
    \A id \in Ids :
      IF DeliveredFor(id) = {}
      THEN id \notin DOMAIN out
      ELSE /\ id \in DOMAIN out
           /\ DOMAIN out[id] =
                {ID} \cup UNION {DOMAIN r.properties : r \in DeliveredFor(id)}
           /\ out[id][ID] = id
           /\ DisjointFields(DeliveredFor(id)) =>
                \A r \in DeliveredFor(id) : \A f \in DOMAIN r.properties :
                  out[id][f] = r.properties[f]

C19_Witness ==
  /\ mode = "chunks" /\ pc = "done"
  /\ \E id \in Ids : /\ Cardinality(DeliveredFor(id)) > 1
                     /\ DisjointFields(DeliveredFor(id))
  /\ \E id \in Ids : /\ Cardinality(DeliveredFor(id)) > 1
                     /\ ~DisjointFields(DeliveredFor(id))

\* C20: sanitisation is idempotent.  For every property name x,
\* sanitise(sanitise(x)) = sanitise(x).
C20_SanitiseIdempotent ==
  (mode = "sanitise" /\ Len(names) = 3) => names[3] = names[2]

C20_Witness ==
  /\ mode = "sanitise" /\ Len(names) = 3
  /\ Len(names[2]) > Len(names[1])
  /\ \E k \in 1..Len(names[1]) : names[2][k + 2] # names[1][k]

ValidIdentifier(n) ==
  /\ Len(n) > 0
  /\ n[1] \in Letters
  /\ \A k \in 1..Len(n) : n[k] \in Letters \cup Digits \cup {"_"}

\* C21: sanitised names are always valid identifiers.  For every property
\* name x, the empty one included, sanitise(x) is not empty, starts with a
\* letter a-z and has only characters of a-z, 0-9 and underscore.
C21_SanitisedIsIdentifier ==
  (mode = "sanitise" /\ Len(names) > 1) => ValidIdentifier(names[2])

\* C22: column names are unique.  For every catalogue whose source names
\* are pairwise distinct, the schema main builds (id, then one column per
\* property) has pairwise distinct column names.
C22_ColumnNamesUnique ==
  mode = "schema" => ~HasDupNames(Schema)

RECURSIVE Flatten(_)
Flatten(ss) == IF Len(ss) = 0 THEN <<>> ELSE Head(ss) \o Flatten(Tail(ss))

\* C23: the catalogue fetch is exhaustive.  When the fetch returns it has
\* requested every page of the chain once, in order, and its result is the
\* concatenation of all the pages' results, never the first page alone.
C23_CatalogueExhaustive ==
  (mode = "catalogue" /\ pc = "done") =>
    /\ requested = [k \in 1..Len(pages) |-> k]
    /\ props = Flatten(pages)

\* C24: lastSync always yields a usable window start.  It returns the
\* stored timestamp when the row holds one, and the time of the call minus
\* thirty days when there is no row or when the stored value is NULL or
\* cannot be parsed; it never returns NaN and never throws on such a value.
C24_UsableWindow ==
  mode = "window" =>
    /\ failedAt # "TypeError"
    /\ pc = "done" =>
         window = IF stored.cell = "timestamp"
                  THEN [kind |-> "number", value |-> stored.ms]
                  ELSE [kind |-> "number", value |-> clock - ThirtyDays]

\* C25: sync-state uniqueness.  sync_tracker, which starts with no row for
\* contacts, changes only by a saveSync call, and after the call it holds
\* exactly one row for contacts, with the timestamp the call was given,
\* whether it held no row or one row before.
C25_OneTrackerRow ==
  [][sync_tracker' # sync_tracker =>
       /\ pc = "saveSync"
       /\ Len(sync_tracker) <= 1
       /\ sync_tracker' = <<savedTimestamp>>]_vars

C25_Witness ==
  /\ Len(tracker0) = 1
  /\ Len(sync_tracker) = 1
  /\ sync_tracker # tracker0

\* C26: empty-value normalisation.  In the row built for a contact, every
\* field other than id whose source value is the empty string, null or
\* undefined is written as null, whatever the declared type of the field.
C26_EmptyIsNull ==
  (mode = "rows" /\ pc = "done") =>
    \A k \in (DOMAIN contact) \ {ID} :
      contact[k] \in {EmptyString, JSNull, JSUndefined}
        => rows[1][IF k = props[1].name THEN sanitise(k) ELSE UndefinedKey] = JSNull

C26_Witness ==
  /\ mode = "rows" /\ pc = "done"
  /\ variant = "part_003" /\ props[1].type = "bool"
  /\ contact[props[1].name] = EmptyString
  /\ rows[1][sanitise(props[1].name)] = JSNull

\* C27: boolean coercion.  For a field declared bool the transformer of
\* part_003 maps the literal true and the strings true/TRUE to true, the
\* string false to false, and every other non-empty value to null.
C27_BoolCoercion ==
  (mode = "rows" /\ pc = "done" /\ variant = "part_003" /\ props[1].type = "bool"
     /\ contact[props[1].name] \notin {EmptyString, JSNull, JSUndefined})
    => rows[1][sanitise(props[1].name)] =
         LET x == contact[props[1].name]
         IN IF x \in {JSTrue, JSString("true"), JSString("TRUE")} THEN JSTrue
            ELSE IF x = JSString("false") THEN JSFalse
            ELSE JSNull

\* C28: unknown fields are dropped.  Every key of a row is id or the
\* sanitised name of a catalogue property; a contact field the property map
\* does not know adds no key.
C28_UnknownDropped ==
  (mode = "rows" /\ pc = "done") =>
    DOMAIN rows[1] \subseteq {ID} \cup {sanitise(props[j].name) : j \in 1..Len(props)}

\* C29: missing configuration is fatal before any side effect.  A script
\* started without one of the options it reads sends no request to the
\* source or to the warehouse, and does not end with exit status 0.
C29_MissingConfigFatal ==
  (mode = "entry" /\ ~(Required(variant) \subseteq env)) =>
    /\ effects = <<>>
    /\ exitCode # "0"

\* C30: exit status reflects the outcome.  A script that has ended has exit
\* status 0 exactly when no stage of its run threw.
C30_ExitStatus ==
  (mode = "entry" /\ exitCode # "running") =>
    (exitCode = "0" <=> failedAt = "none")

\* C31: the extraction sweep visits each page once.  No page is requested
\* twice for one property chunk, the pages of a chunk are requested in
\* order, and when the sweep ends every page has been requested for every
\* chunk.
C31_EachPageOnce ==
  mode = "sweep" =>
    /\ \A j, k \in 1..Len(requested) :
         (j < k /\ requested[j][1] = requested[k][1])
           => requested[j][2] < requested[k][2]
    /\ pc \in {"sweepDone", "done"} =>
         {requested[k] : k \in 1..Len(requested)} =
           {<<ChunkSeq(variant)[c], p>> :
              c \in 1..Len(ChunkSeq(variant)), p \in 1..Len(pages)}

\* C32: shared-cursor chunking yields complete records.  When the sweep of
\* part_000 ends, every contact of every page is in the output with id and
\* the fields of both chunks, and each page was requested for each chunk.
C32_SharedCursorComplete ==
  (mode = "sweep" /\ variant = "part_000" /\ pc \in {"sweepDone", "done"}) =>
    /\ \A p \in 1..Len(pages) : \A c \in pages[p] :
         /\ c \in DOMAIN out
         /\ DOMAIN out[c] = {ID, ChunkProp("first"), ChunkProp("second")}
         /\ out[c][ID] = c
    /\ \A p \in 1..Len(pages) :
         \E k \in 1..Len(requested) : requested[k] = <<"second", p>>

C32_Witness ==
  /\ mode = "sweep" /\ variant = "part_000" /\ pc = "done"
  /\ Len(pages) > 1
  /\ pages[1] # {} /\ pages[2] # {} /\ pages[1] # pages[2]
  /\ Len(rows) > 1

\* C36: one record per id from the extractor.  The list fetchContacts
\* returns has pairwise distinct ids and every record in it has an id, also
\* when a contact shows on more than one page.
C36_OneRecordPerId ==
  (mode = "sweep" /\ pc = "done") =>
    /\ \A k \in 1..Len(rows) : ID \in DOMAIN rows[k]
    /\ DistinctIds(rows)

\* C33: bounded batching.  Every insert call of the staging loader carries
\* at most BatchSize rows (the 500-row limit, scaled), the calls take the
\* rows in order, one slice after the other.
C33_BoundedBatches ==
  [][(mode = "sync" /\ pc = "insert" /\ i' # i) =>
       /\ i' > i
       /\ (IF i' < Len(rows) THEN i' ELSE Len(rows)) - i <= BatchSize]_vars

\* C35: no unconditional watermark advance.  A sync run whose extraction
\* returned zero contacts ends with sync_tracker as it was when the run
\* started.
C35_NoAdvanceOnEmpty ==
  (mode = "sync" /\ pc = "done" /\ DOMAIN out = {} /\ Len(rows) = 0) =>
    sync_tracker = tracker0

\* C34: merge frame.  After mergeStageIntoMaster every row the master held
\* is still there under its id; a row whose id is not in staging is the
\* same in every column, and a matched row is the same in every column
\* that is not in the run's schema.
C34_MergeFrame ==
  (mode = "frame" /\ pc = "done") =>
    \A k \in 1..Len(master0.rows) :
      \E j \in 1..Len(master.rows) :
        /\ master.rows[j][ID] = master0.rows[k][ID]
        /\ master0.rows[k][ID] \notin IdsOf(stage.rows)
             => master.rows[j] = master0.rows[k]
        /\ DOMAIN master.rows[j] = DOMAIN master0.rows[k]
        /\ \A c \in DOMAIN master0.rows[k] \ Names(Schema) :
             master.rows[j][c] = master0.rows[k][c]

C34_Witness ==
  /\ mode = "frame" /\ pc = "done"
  /\ \E k \in 1..Len(master0.rows) :
       /\ master0.rows[k][ID] \in IdsOf(stage.rows)
       /\ master0.rows[k][COL2] # NULL
       /\ master.rows[k][COL] # master0.rows[k][COL]
  /\ \E k \in 1..Len(master0.rows) : master0.rows[k][ID] \notin IdsOf(stage.rows)

\* C37: the anti-join delete runs only on a complete live-id list.  The
\* live-id reconciler has deleted only when its sweep reached the page
\* without a cursor and collected every live id, at least one; while it has
\* not deleted, and after a failed request or an empty sweep, the master
\* table is as it was.
C37_DeleteOnlyOnCompleteList ==
  (mode = "cleanup" /\ variant = "part_007") =>
    /\ issued => /\ {allIds[k] : k \in 1..Len(allIds)} = listing
                 /\ listing # {}
                 /\ after = NoCursor
    /\ ~issued => master = master0
    /\ (pc = "failed" \/ (pc = "done" /\ Len(allIds) = 0)) => ~issued

C37_Witness ==
  /\ mode = "cleanup" /\ variant = "part_007"
  /\ pc = "failed" /\ failedAt = "listPage"
  /\ Len(allIds) > 0
  /\ \E k \in 1..Len(master.rows) :
       /\ master.rows[k][ID] \in listing
       /\ \A j \in 1..Len(allIds) : allIds[j] # master.rows[k][ID]
  /\ master = master0

\* C38: the reconciler does not delete live contacts when it overlaps a
\* sync.  The step that executes the DELETE removes no master row whose id
\* is live at the source at that moment.
C38_LiveRowsSurvive ==
  [][(mode = "overlap" /\ ~issued /\ issued') =>
       \A k \in 1..Len(master.rows) :
         master.rows[k][ID] \in listing
           => master.rows[k][ID] \in IdsOf(master'.rows)]_vars

\* C39: overlapping sync runs do not lose staged rows.  When a run whose
\* watermark is saved has finished its merge, every row it extracted is in
\* the master table, whatever the other run did to the staging table.
C39_StagedRowsMerged ==
  (mode = "tworuns" /\ pc = "done" /\ sync_tracker = <<now>>) =>
    \A k \in 1..Len(rows) :
      \E j \in 1..Len(master.rows) : master.rows[j] = rows[k]

====
